---- MODULE Spec2Model ----
(***************************************************************************)
(* MediPro backend: the order workflow (cart -> order -> stock), its       *)
(* status machine and the routes that reach it, as a state machine over    *)
(* the relational store.  Money is kept in hundredths (Numeric(10, 2));    *)
(* the Python floats create_order computes with are IEEE-754 doubles,      *)
(* modelled exactly as fixed-point numbers of 2^-60 held in 20-bit limbs.  *)
(***************************************************************************)
EXTENDS Integers, Sequences, FiniteSets, TLC

(***************************************************************************)
(* IEEE-754 double arithmetic on non-negative values.  A double x >= 2^-8  *)
(* is the natural number x * 2^60, a little-endian tuple of NumLimbs limbs *)
(* of LimbBits bits.  Every operation computes the exact result and rounds *)
(* it to 53 significant bits, ties to even.                                *)
(***************************************************************************)
LimbBits == 20

NumLimbs == 5

FracBits == 60

Mantissa == 53

Base == 2 ^ LimbBits

Limbs == 1..NumLimbs

BigZero == [i \in Limbs |-> 0]

\* the integer n < 2^31 as the fixed-point number n * 2^60
BigFromInt(n) == [i \in Limbs |-> IF i = 4 THEN n % Base ELSE IF i = 5 THEN n \div Base ELSE 0]

RECURSIVE CarryAdd(_, _, _)
CarryAdd(a, b, i) == IF i = 0 THEN 0 ELSE (a[i] + b[i] + CarryAdd(a, b, i - 1)) \div Base

BigAdd(a, b) == [i \in Limbs |-> (a[i] + b[i] + CarryAdd(a, b, i - 1)) % Base]

RECURSIVE CarryMul(_, _, _)
CarryMul(a, k, i) == IF i = 0 THEN 0 ELSE (a[i] * k + CarryMul(a, k, i - 1)) \div Base

BigMulSmall(a, k) == [i \in Limbs |-> (a[i] * k + CarryMul(a, k, i - 1)) % Base]

RECURSIVE RemAbove(_, _, _)
RemAbove(a, d, i) == IF i > NumLimbs THEN 0 ELSE (RemAbove(a, d, i + 1) * Base + a[i]) % d

BigDivSmall(a, d) == [i \in Limbs |-> (RemAbove(a, d, i + 1) * Base + a[i]) \div d]

BigModSmall(a, d) == RemAbove(a, d, 1)

RECURSIVE BigGeqFrom(_, _, _)
BigGeqFrom(a, b, i) ==
    IF i = 0 THEN TRUE
    ELSE IF a[i] # b[i] THEN a[i] > b[i]
    ELSE BigGeqFrom(a, b, i - 1)

BigGeq(a, b) == BigGeqFrom(a, b, NumLimbs)

TopLimb(a) == IF \E i \in Limbs : a[i] # 0
              THEN CHOOSE i \in Limbs : a[i] # 0 /\ \A j \in Limbs : j > i => a[j] = 0
              ELSE 0

BitLen(a) ==
    LET t == TopLimb(a)
    IN  IF t = 0 THEN 0
        ELSE (t - 1) * LimbBits
             + (CHOOSE n \in 1..LimbBits : a[t] < 2 ^ n /\ a[t] >= 2 ^ (n - 1))

Bit(a, n) == (a[(n \div LimbBits) + 1] \div (2 ^ (n % LimbBits))) % 2

\* some bit below position n is set
LowNonZero(a, n) == \E j \in 0..(n - 1) : Bit(a, j) = 1

ShiftRight(a, k) ==
    LET w == k \div LimbBits
        b == k % LimbBits
    IN  [i \in Limbs |->
            (IF i + w <= NumLimbs THEN a[i + w] \div (2 ^ b) ELSE 0)
          + (IF i + w + 1 <= NumLimbs
             THEN (a[i + w + 1] % (2 ^ b)) * (2 ^ (LimbBits - b)) ELSE 0)]

ShiftLeft(a, k) ==
    LET w == k \div LimbBits
        b == k % LimbBits
    IN  [i \in Limbs |->
            (IF i - w >= 1 THEN (a[i - w] % (2 ^ (LimbBits - b))) * (2 ^ b) ELSE 0)
          + (IF i - w - 1 >= 1 THEN a[i - w - 1] \div (2 ^ (LimbBits - b)) ELSE 0)]

\* the element of a one-element set: Only({e(v) : v \in {arg}}) evaluates arg once
Only(S) == CHOOSE v \in S : TRUE

RoundBits(a, k, sticky) ==
    LET up == /\ Bit(a, k - 1) = 1
              /\ (sticky \/ LowNonZero(a, k - 1) \/ Bit(a, k) = 1)
    IN  Only({ShiftLeft(IF up THEN BigAdd(m, [i \in Limbs |-> IF i = 1 THEN 1 ELSE 0])
                              ELSE m, k) : m \in {ShiftRight(a, k)}})

\* round the exact value exact (plus a non-zero tail below it when sticky)
\* to 53 significant bits, ties to even
Round53(exact, sticky) ==
    Only({IF BitLen(a) <= Mantissa THEN a ELSE RoundBits(a, BitLen(a) - Mantissa, sticky)
          : a \in {exact}})

\* float(d) for the Decimal d = cents / 100: the double nearest to it
Float(cents) ==
    IF cents = 0 THEN BigZero
    ELSE Only({Round53(BigDivSmall(t, 100), BigModSmall(t, 100) # 0)
               : t \in {BigFromInt(cents)}})

\* x * k for a double x and an int k (the int converts exactly)
FloatMulInt(x, k) == Only({Round53(BigMulSmall(xv, k), FALSE) : xv \in {x}})

FloatAdd(x, y) == Only({Round53(BigAdd(xv, yv), FALSE) : xv \in {x}, yv \in {y}})

\* x >= n for a double x and an int n
FloatGeqInt(x, n) == \E xv \in {x} : BigGeq(xv, BigFromInt(n))

\* a double stored in a Numeric(10, 2) column: rounded to hundredths
Numeric2(x) ==
    Only({Only({q[1] + Base * q[2] + Bit(t, FracBits - 1) : q \in {ShiftRight(t, FracBits)}})
          : t \in {BigMulSmall(xv, 100) : xv \in {x}}})

(***************************************************************************)
(* Bounds of the model.                                                    *)
(***************************************************************************)
\* largest stock_quantity an admin edit sets
MaxStock == 2

\* largest quantity a cart request asks for
MaxQty == 2

\* number of orders the store holds at most
MaxOrders == 2

\* the clock runs from 0 to MaxTime seconds
MaxTime == 1

MaxLineQty == 3

(***************************************************************************)
(* The universe: user rows, callers, products, enumerations.               *)
(***************************************************************************)
UserIds == {"u1", "u2", "adm"}

\* the users that shop in the model
Shoppers == {"u1", "u2"}

\* a request without a bearer token that verifies
Anonymous == "anon"

Callers == UserIds \cup {Anonymous}

ProductIds == {"p1", "p2"}

Null == "null"

\* a null reference to a category: the ids of categories start at 1
NoId == 0

\* a field the request body does not set
Unset == <<>>

PENDING == "pending"

CONFIRMED == "confirmed"

PROCESSING == "processing"

SHIPPED == "shipped"

DELIVERED == "delivered"

CANCELLED == "cancelled"

REFUNDED == "refunded"

PAID == "paid"

FAILED == "failed"

OrderStatus == {PENDING, CONFIRMED, PROCESSING, SHIPPED, DELIVERED, CANCELLED, REFUNDED}

PaymentStatus == {PENDING, PAID, FAILED, REFUNDED}

\* str(user_id)[:4].upper(): the two shoppers' ids share their first four characters
IdPrefix(u) == IF u \in Shoppers THEN "0A1B" ELSE "FFFF"

\* money in hundredths
Cents(n) == n * 100

FreeShippingFrom == 5000

FlatShipping == 250

VARIABLES
    now,          \* datetime.utcnow(), in seconds
    users,        \* users table: id -> row
    products,     \* products table: id -> row (exists = FALSE: no such row)
    cart_items,   \* cart_items table: a set of rows
    orders,       \* orders table: a sequence of rows, the id is the index
    order_items,  \* order_items table: a set of rows
    sess,         \* per shopper: the request in flight and its uncommitted session
    watch,        \* the callers whose responses are observed
    last,         \* the response a watched caller received last
    pre_stock,    \* history: per order, the stock its products had before it
    categories,   \* categories table: a sequence of rows, the id is the index
    reqs,         \* cart, category and review requests in flight, one per connection
    reviews       \* reviews table: a set of rows

vars == <<now, users, products, cart_items, orders, order_items, sess, watch, last, pre_stock,
          categories, reqs, reviews>>

store == <<products, cart_items, orders, order_items>>

NoProduct ==
    [exists |-> FALSE, is_active |-> FALSE, price |-> 0, stock_quantity |-> 0,
     category_id |-> NoId, name |-> Null, sku |-> Null]

\* the connections that carry cart and category requests
Slots == {"r1", "r2"}

\* met is history: what other requests committed while this one was in flight
IdleRequest ==
    [pc |-> "idle", by |-> Anonymous, target |-> Null, body |-> <<>>, read |-> <<>>,
     met |-> {}]

NoRequests == [r \in Slots |-> IdleRequest]

IdleSession == [pc |-> "idle", lines |-> <<>>, order |-> <<>>, order_id |-> 0]

Response(op, by, outcome) == [op |-> op, by |-> by, outcome |-> outcome]

\* the response goes to the caller; `last` keeps it when the caller is watched
Reply(op, by, outcome) ==
    last' = IF by \in watch THEN Response(op, by, outcome) ELSE last

(***************************************************************************)
(* api/deps.py: who a request runs as.                                     *)
(***************************************************************************)
\* the bearer token verifies and names a user id
get_current_user_id(c) == c # Anonymous

get_current_user(c) ==
    /\ get_current_user_id(c)
    /\ c \in DOMAIN users
    /\ users[c].is_active

get_current_admin_user(c) ==
    /\ get_current_user(c)
    /\ users[c].is_admin

\* app/database.py get_db: a request that ends in an exception leaves nothing
\* of its session behind
Rollback(s) == IdleSession

(***************************************************************************)
(* services/cart_service.py                                                *)
(***************************************************************************)
CartOf(u) == {ci \in cart_items : ci.user_id = u}

\* uuid4 primary key of a new row.  Ids are opaque: the model names the row of
\* user u and product p after the pair, and the unique constraint
\* (user_id, product_id) keeps that name unique
NewCartItemId(u, p) == <<u, p>>

\* as Merged, with the quantity replaced instead of added
MergedReplaced(cart_item, quantity) == [cart_item EXCEPT !.quantity = quantity]

\* cart_item.quantity += quantity
Merged(cart_item, quantity) == [cart_item EXCEPT !.quantity = cart_item.quantity + quantity]

\* CartResponse.from_items: the lines of the caller's cart
get_cart(u) == {[product_id |-> ci.product_id, quantity |-> ci.quantity] : ci \in CartOf(u)}

add_to_cart(u, p, quantity) ==
    /\ get_current_user(u)
    /\ LET product  == products[p]
           existing == {ci \in CartOf(u) : ci.product_id = p}
       IN  IF ~product.exists
           THEN /\ Reply("add_to_cart", u, "Product not found")
                /\ UNCHANGED cart_items
           ELSE IF ~product.is_active
           THEN /\ Reply("add_to_cart", u, "Product is not available")
                /\ UNCHANGED cart_items
           ELSE IF product.stock_quantity < quantity
           THEN /\ Reply("add_to_cart", u, "Insufficient stock")
                /\ UNCHANGED cart_items
           ELSE IF existing # {}
           THEN LET cart_item == CHOOSE ci \in existing : TRUE
                IN  IF cart_item.quantity + quantity > product.stock_quantity
                    THEN \* raised before the commit: the session's change is dropped
                         /\ Reply("add_to_cart", u, "Insufficient stock")
                         /\ UNCHANGED cart_items
                    ELSE /\ cart_items' = (cart_items \ {cart_item}) \cup
                              {Merged(cart_item, quantity)}
                         /\ Reply("add_to_cart", u, "ok")
           ELSE /\ cart_items' = cart_items \cup
                     {[id |-> NewCartItemId(u, p), user_id |-> u, product_id |-> p,
                       quantity |-> quantity]}
                /\ Reply("add_to_cart", u, "ok")
    /\ UNCHANGED <<now, users, watch, reviews, categories, reqs, products, orders, order_items, sess, pre_stock>>

\* as OwnItem, without the filter on the owner
AnyItem(u, item_id) == {ci \in cart_items : ci.id = item_id}

\* .where(CartItem.id == item_id, CartItem.user_id == user_id)
OwnItem(u, item_id) == {ci \in cart_items : ci.id = item_id /\ ci.user_id = u}

update_cart_item(u, item_id, quantity) ==
    /\ get_current_user(u)
    /\ LET found == OwnItem(u, item_id)
       IN  IF found = {}
           THEN /\ Reply("update_cart_item", u, "Cart item not found")
                /\ UNCHANGED cart_items
           ELSE LET cart_item == CHOOSE ci \in found : TRUE
                IN  IF products[cart_item.product_id].stock_quantity < quantity
                    THEN /\ Reply("update_cart_item", u, "Insufficient stock")
                         /\ UNCHANGED cart_items
                    ELSE /\ cart_items' = (cart_items \ {cart_item}) \cup
                              {[cart_item EXCEPT !.quantity = quantity]}
                         /\ Reply("update_cart_item", u, "ok")
    /\ UNCHANGED <<now, users, watch, reviews, categories, reqs, products, orders, order_items, sess, pre_stock>>

remove_from_cart(u, item_id) ==
    /\ get_current_user(u)
    /\ LET found == OwnItem(u, item_id)
       IN  IF found = {}
           THEN /\ Reply("remove_from_cart", u, "Cart item not found")
                /\ UNCHANGED cart_items
           ELSE /\ cart_items' = cart_items \ found
                /\ Reply("remove_from_cart", u, "ok")
    /\ UNCHANGED <<now, users, watch, reviews, categories, reqs, products, orders, order_items, sess, pre_stock>>

clear_cart(u) ==
    /\ get_current_user(u)
    /\ cart_items' = cart_items \ CartOf(u)
    /\ Reply("clear_cart", u, "ok")
    /\ UNCHANGED <<now, users, watch, reviews, categories, reqs, products, orders, order_items, sess, pre_stock>>

(***************************************************************************)
(* add_to_cart step by step, for requests that run at the same time: the   *)
(* SELECTs with the checks of lines 36-65, then the COMMIT of line 75.     *)
(***************************************************************************)
\* the ids some row or some request in flight holds
CartItemIdsHeld ==
    {ci.id : ci \in cart_items} \cup
    {reqs[r].read.cart_item[1].id :
        r \in {s \in Slots : reqs[s].pc = "add_to_cart" /\ reqs[s].read.cart_item # <<>>}}

\* uuid4: an id nothing holds.  The k-th row of user u and product p is named
\* <<u, p, k>>
FreshCartItemId(u, p) ==
    <<u, p, CHOOSE k \in 0..(Cardinality(CartItemIdsHeld) + 1) :
                /\ <<u, p, k>> \notin CartItemIdsHeld
                /\ \A j \in 0..(k - 1) : <<u, p, j>> \in CartItemIdsHeld>>

add_to_cart_load(r, u, p, quantity) ==
    /\ get_current_user(u)
    /\ reqs[r].pc = "idle"
    /\ LET product  == products[p]
           existing == {ci \in CartOf(u) : ci.product_id = p}
           held     == [pc |-> "add_to_cart", by |-> u, target |-> p, body |-> quantity,
                        read |-> [product |-> product, cart_item |-> <<>>], met |-> {}]
       IN  IF ~product.exists
           THEN /\ Reply("add_to_cart", u, "Product not found")
                /\ UNCHANGED reqs
           ELSE IF ~product.is_active
           THEN /\ Reply("add_to_cart", u, "Product is not available")
                /\ UNCHANGED reqs
           ELSE IF product.stock_quantity < quantity
           THEN /\ Reply("add_to_cart", u, "Insufficient stock")
                /\ UNCHANGED reqs
           ELSE IF existing # {}
           THEN LET cart_item == CHOOSE ci \in existing : TRUE
                IN  IF Merged(cart_item, quantity).quantity > product.stock_quantity
                    THEN /\ Reply("add_to_cart", u, "Insufficient stock")
                         /\ UNCHANGED reqs
                    ELSE /\ reqs' = [reqs EXCEPT ![r] =
                                        [held EXCEPT !.read.cart_item = <<cart_item>>]]
                         /\ UNCHANGED last
           ELSE /\ reqs' = [reqs EXCEPT ![r] = held]
                /\ UNCHANGED last
    /\ UNCHANGED <<now, users, watch, reviews, categories, products, cart_items, orders, order_items,
                   sess, pre_stock>>

\* as UniqueUserProduct, without the constraint
NoConstraint(u, p) == TRUE

\* UniqueConstraint('user_id', 'product_id'): no row of the pair is there
UniqueUserProduct(u, p) == \A ci \in cart_items : ~(ci.user_id = u /\ ci.product_id = p)

\* the quantity of the line the request read, 0 when it read no line
BaseQuantity(req) ==
    IF req.read.cart_item = <<>> THEN 0 ELSE req.read.cart_item[1].quantity

\* the request of slot r is over; the requests in flight for the same line
\* have met it
Met(r, outcome) ==
    [s \in Slots |->
        IF s = r THEN IdleRequest
        ELSE IF /\ outcome = "ok"
                /\ reqs[s].pc = "add_to_cart"
                /\ reqs[s].by = reqs[r].by
                /\ reqs[s].target = reqs[r].target
        THEN [reqs[s] EXCEPT !.met = @ \cup {[quantity |-> reqs[r].body,
                                               base |-> BaseQuantity(reqs[r])]}]
        ELSE reqs[s]]

\* the COMMIT: the INSERT of a new row, or the UPDATE of the row that was read
add_to_cart_commit(r) ==
    /\ reqs[r].pc = "add_to_cart"
    /\ LET u        == reqs[r].by
           p        == reqs[r].target
           quantity == reqs[r].body
           read     == reqs[r].read.cart_item
       IN  IF read = <<>>
           THEN IF products[p].exists /\ UniqueUserProduct(u, p)
                THEN /\ cart_items' = cart_items \cup
                          {[id |-> FreshCartItemId(u, p), user_id |-> u, product_id |-> p,
                            quantity |-> quantity]}
                     /\ reqs' = Met(r, "ok")
                     /\ Reply("add_to_cart", u, "ok")
                ELSE \* IntegrityError: the product is gone or the pair has a row
                     /\ reqs' = Met(r, "store failure")
                     /\ Reply("add_to_cart", u, "store failure")
                     /\ UNCHANGED cart_items
           ELSE LET rows == {ci \in cart_items : ci.id = read[1].id}
                IN  IF rows # {}
                    THEN /\ cart_items' = (cart_items \ rows) \cup
                              {[ci EXCEPT !.quantity = Merged(read[1], quantity).quantity]
                                  : ci \in rows}
                         /\ reqs' = Met(r, "ok")
                         /\ Reply("add_to_cart", u, "ok")
                    ELSE \* StaleDataError: the UPDATE matched no row
                         /\ reqs' = Met(r, "store failure")
                         /\ Reply("add_to_cart", u, "store failure")
                         /\ UNCHANGED cart_items
    /\ UNCHANGED <<now, users, watch, reviews, categories, products, orders, order_items, sess, pre_stock>>


(***************************************************************************)
(* History, kept beside the store: for each order, the stock each of its   *)
(* products had when the order was placed, for as long as nothing else has *)
(* written that product's stock.  No operation reads it.                   *)
(***************************************************************************)
NoStock == <<>>

\* the products a request writes
Touched(lines) == {lines[i].product_id : i \in 1..Len(lines)}

\* the stock of the products in ps has been written: forget it for every order
Disturbed(ps) ==
    [o \in 1..Len(pre_stock) |->
        [p \in ProductIds |-> IF p \in ps THEN NoStock ELSE pre_stock[o][p]]]

\* the stock in the store before the order of these lines is committed
StockBefore(lines) ==
    [p \in ProductIds |->
        IF p \in Touched(lines) THEN <<products[p].stock_quantity>> ELSE NoStock]

(***************************************************************************)
(* services/order_service.py: create_order.  The request runs in three     *)
(* steps, one per point where the store is reached: the SELECT of the cart *)
(* (with validation and pricing, which do not await), the flush that       *)
(* INSERTs the order row, and the item loop with the cart DELETE and the   *)
(* COMMIT.  Products stay those loaded with the cart: the later SELECT of  *)
(* a product returns the row the session already holds.                    *)
(***************************************************************************)
\* the orders a SELECT without ORDER BY may return the rows of S in
Orderings(S) ==
    {seq \in [1..Cardinality(S) -> S] : \A i, j \in 1..Cardinality(S) : i # j => seq[i] # seq[j]}

\* selectinload(CartItem.product): each cart row with its product row
LoadLines(rows) ==
    [i \in 1..Len(rows) |->
        [product_id |-> rows[i].product_id,
         quantity   |-> rows[i].quantity,
         product    |-> products[rows[i].product_id]]]

\* the first line the validation loop rejects, 0 when it accepts them all
FirstRejected(lines) ==
    LET bad == {i \in 1..Len(lines) :
                   \/ ~lines[i].product.exists
                   \/ ~lines[i].product.is_active
                   \/ lines[i].product.stock_quantity < lines[i].quantity}
    IN  IF bad = {} THEN 0 ELSE CHOOSE i \in bad : \A j \in bad : i <= j

\* item_subtotal = float(product.price) * cart_item.quantity
ItemSubtotal(line) == FloatMulInt(Float(line.product.price), line.quantity)

\* subtotal = 0; subtotal += item_subtotal, line by line
RECURSIVE SubtotalOf(_, _)
SubtotalOf(lines, n) ==
    IF n = 0 THEN BigZero ELSE FloatAdd(SubtotalOf(lines, n - 1), ItemSubtotal(lines[n]))

\* shipping_cost = 0 if subtotal >= 5000 else 250
ShippingCost(subtotal) == IF FloatGeqInt(subtotal, FreeShippingFrom) THEN 0 ELSE FlatShipping

\* order_number = f"MP-{utcnow:%Y%m%d%H%M%S}-{str(user_id)[:4].upper()}"
OrderNumber(u, t) == <<"MP", t, IdPrefix(u)>>

\* as NewOrder, with a total that leaves the shipping cost out
NewOrderTotalWithoutShipping(u, lines, t) ==
    LET sub == Only({v : v \in {SubtotalOf(lines, Len(lines))}})
        shp == ShippingCost(sub)
    IN  [user_id         |-> u,
         order_number    |-> OrderNumber(u, t),
         subtotal        |-> Numeric2(sub),
         shipping_cost   |-> Cents(shp),
         tax_amount      |-> 0,
         discount_amount |-> 0,
         total_amount    |-> Numeric2(sub),
         status          |-> PENDING,
         payment_status  |-> PENDING,
         delivered_at    |-> <<>>]

\* the Order row as the columns store it
NewOrder(u, lines, t) ==
    LET sub == Only({v : v \in {SubtotalOf(lines, Len(lines))}})
        shp == ShippingCost(sub)
    IN  [user_id         |-> u,
         order_number    |-> OrderNumber(u, t),
         subtotal        |-> Numeric2(sub),
         shipping_cost   |-> Cents(shp),
         tax_amount      |-> 0,
         discount_amount |-> 0,
         total_amount    |-> Numeric2(FloatAdd(sub, BigFromInt(shp))),
         status          |-> PENDING,
         payment_status  |-> PENDING,
         delivered_at    |-> <<>>]

\* the OrderItem rows of order id, one per line
NewOrderItems(id, lines) ==
    {[id                |-> <<id, i>>,
      order_id          |-> id,
      product_id        |-> lines[i].product_id,
      product_name      |-> lines[i].product.name,
      product_sku       |-> lines[i].product.sku,
      quantity          |-> lines[i].quantity,
      price_at_purchase |-> lines[i].product.price,
      subtotal          |-> Numeric2(ItemSubtotal(lines[i]))] : i \in 1..Len(lines)}

\* orders the sessions in flight will add
InFlightOrders == Cardinality({u \in Shoppers : sess[u].pc \in {"flush", "items"}})

create_order_load(u) ==
    /\ get_current_user(u)
    /\ sess[u].pc = "idle"
    /\ Len(orders) + InFlightOrders < MaxOrders
    /\ IF CartOf(u) = {}
       THEN /\ Reply("create_order", u, "Cart is empty")
            /\ UNCHANGED sess
       ELSE \E rows \in Orderings(CartOf(u)) :
              LET lines == LoadLines(rows)
                  bad   == FirstRejected(lines)
              IN  IF bad # 0
                  THEN /\ Reply("create_order", u,
                                     IF lines[bad].product.exists /\ lines[bad].product.is_active
                                     THEN "Insufficient stock" ELSE "Product is not available")
                       /\ UNCHANGED sess
                  ELSE /\ sess' = [sess EXCEPT ![u] =
                              [pc |-> "flush", lines |-> lines,
                               order |-> <<NewOrder(u, lines, now)>>, order_id |-> 0]]
                       /\ UNCHANGED last
    /\ UNCHANGED <<now, users, watch, reviews, categories, reqs, products, cart_items, orders, order_items, pre_stock>>

\* as create_order_flush, with a COMMIT where the code has the flush: the order
\* row is in the store before its items are
create_order_flush_commits(u) ==
    /\ sess[u].pc = "flush"
    /\ IF \E i \in 1..Len(orders) : orders[i].order_number = sess[u].order[1].order_number
       THEN /\ sess' = [sess EXCEPT ![u] = Rollback(sess[u])]
            /\ Reply("create_order", u, "store failure")
            /\ UNCHANGED <<orders, pre_stock>>
       ELSE /\ sess' = [sess EXCEPT ![u].pc = "items"]
            /\ orders' = Append(orders, sess[u].order[1])
            /\ pre_stock' = Append(pre_stock, [p \in ProductIds |-> NoStock])
            /\ UNCHANGED last
    /\ UNCHANGED <<now, users, watch, reviews, categories, reqs, products, cart_items, order_items>>

\* db.add(order); await db.flush(): the INSERT runs inside the transaction and
\* fails on the unique order_number; another transaction's uncommitted row with
\* the same number makes it wait
create_order_flush(u) ==
    /\ sess[u].pc = "flush"
    /\ \A v \in Shoppers \ {u} :
          sess[v].pc = "items" => sess[v].order[1].order_number # sess[u].order[1].order_number
    /\ IF \E i \in 1..Len(orders) : orders[i].order_number = sess[u].order[1].order_number
       THEN /\ sess' = [sess EXCEPT ![u] = Rollback(sess[u])]
            /\ Reply("create_order", u, "store failure")
       ELSE /\ sess' = [sess EXCEPT ![u].pc = "items"]
            /\ UNCHANGED last
    /\ UNCHANGED <<now, users, watch, reviews, categories, reqs, products, cart_items, orders, order_items, pre_stock>>

\* as DecrementStock, on the row as the store holds it at the commit
DecrementStockFresh(lines) ==
    [p \in ProductIds |->
        IF \E i \in 1..Len(lines) : lines[i].product_id = p
        THEN LET i == CHOOSE j \in 1..Len(lines) : lines[j].product_id = p
             IN  [products[p] EXCEPT !.stock_quantity = @ - lines[i].quantity]
        ELSE products[p]]

\* as DecrementStock, taking one unit per line whatever its quantity
DecrementStockByOne(lines) ==
    [p \in ProductIds |->
        IF \E i \in 1..Len(lines) : lines[i].product_id = p
        THEN LET i == CHOOSE j \in 1..Len(lines) : lines[j].product_id = p
             IN  [products[p] EXCEPT !.stock_quantity = lines[i].product.stock_quantity - 1]
        ELSE products[p]]

\* product.stock_quantity -= quantity, on the row loaded with the cart
DecrementStock(lines) ==
    [p \in ProductIds |->
        IF \E i \in 1..Len(lines) : lines[i].product_id = p
        THEN LET i == CHOOSE j \in 1..Len(lines) : lines[j].product_id = p
             IN  [products[p] EXCEPT
                    !.stock_quantity = lines[i].product.stock_quantity - lines[i].quantity]
        ELSE products[p]]

\* the item loop, the DELETE of the caller's cart rows and the COMMIT
create_order_commit(u) ==
    /\ sess[u].pc = "items"
    /\ IF \E i \in 1..Len(sess[u].lines) : ~products[sess[u].lines[i].product_id].exists
       THEN \* scalar_one() finds no row: NoResultFound
            /\ sess' = [sess EXCEPT ![u] = Rollback(sess[u])]
            /\ Reply("create_order", u, "store failure")
            /\ UNCHANGED <<products, cart_items, orders, order_items, pre_stock>>
       ELSE /\ orders' = Append(orders, sess[u].order[1])
            /\ pre_stock' = Append(Disturbed(Touched(sess[u].lines)),
                                    StockBefore(sess[u].lines))
            /\ order_items' = order_items \cup NewOrderItems(Len(orders) + 1, sess[u].lines)
            /\ products' = DecrementStock(sess[u].lines)
            /\ cart_items' = cart_items \ CartOf(u)
            /\ sess' = [sess EXCEPT ![u] = IdleSession]
            /\ Reply("create_order", u, "created")
    /\ UNCHANGED <<now, users, watch, reviews, categories, reqs>>

\* the store fails under a request in flight (a lost connection, a deadlock)
create_order_abort(u) ==
    /\ sess[u].pc \in {"flush", "items"}
    /\ sess' = [sess EXCEPT ![u] = Rollback(sess[u])]
    /\ Reply("create_order", u, "store failure")
    /\ UNCHANGED <<now, users, watch, reviews, categories, reqs, products, cart_items, orders, order_items, pre_stock>>


(***************************************************************************)
(* services/order_service.py: cancel_order, in three steps: the SELECT of  *)
(* the order with its checks, the SELECTs of the products of its items,    *)
(* and the COMMIT that writes the status and the restored stock.           *)
(***************************************************************************)
\* as Cancellable, with an order in processing still cancellable
CancellableInProcessing == {PENDING, CONFIRMED, PROCESSING}

Cancellable == {PENDING, CONFIRMED}

\* GET /orders/{order_id}: the caller's own order, read and returned
get_order(u, o) ==
    /\ get_current_user(u)
    /\ IF o \in 1..Len(orders) /\ orders[o].user_id = u
       THEN Reply("get_order", u, "ok")
       ELSE Reply("get_order", u, "Order not found")
    /\ UNCHANGED <<now, users, watch, reviews, categories, reqs, products, cart_items, orders,
                   order_items, sess, pre_stock>>

cancel_order_load(u, o) ==
    /\ get_current_user(u)
    /\ sess[u].pc = "idle"
    /\ IF ~(o \in 1..Len(orders) /\ orders[o].user_id = u)
       THEN /\ Reply("cancel_order", u, "Order not found")
            /\ UNCHANGED sess
       ELSE IF orders[o].status \notin Cancellable
       THEN /\ Reply("cancel_order", u, "Order cannot be cancelled at this stage")
            /\ UNCHANGED sess
       ELSE /\ sess' = [sess EXCEPT ![u] =
                   [pc |-> "restore", lines |-> <<>>, order |-> <<>>, order_id |-> o]]
            /\ UNCHANGED last
    /\ UNCHANGED <<now, users, watch, reviews, categories, reqs, products, cart_items, orders, order_items, pre_stock>>

\* for item in order.items: the items that still name a product whose row exists
RestoredItems(o) ==
    {it \in order_items :
        /\ it.order_id = o
        /\ it.product_id # Null
        /\ products[it.product_id].exists}

\* the product rows the loop reads, each with the quantity it gives back
cancel_order_restore(u) ==
    /\ sess[u].pc = "restore"
    /\ \E rows \in Orderings(RestoredItems(sess[u].order_id)) :
          sess' = [sess EXCEPT ![u].pc = "cancel", ![u].lines = LoadLines(rows)]
    /\ UNCHANGED <<now, users, watch, reviews, categories, reqs, products, cart_items, orders, order_items, pre_stock, last>>

\* as RestoreStock, without the restoration
RestoreNoStock(lines) == products

\* product.stock_quantity += item.quantity, on the rows the loop read
RestoreStock(lines) ==
    [p \in ProductIds |->
        IF \E i \in 1..Len(lines) : lines[i].product_id = p
        THEN LET i == CHOOSE j \in 1..Len(lines) : lines[j].product_id = p
             IN  [products[p] EXCEPT
                    !.stock_quantity = lines[i].product.stock_quantity + lines[i].quantity]
        ELSE products[p]]

\* the COMMIT: UPDATE of the order's status and of the products read
cancel_order_commit(u) ==
    /\ sess[u].pc = "cancel"
    /\ IF \E i \in 1..Len(sess[u].lines) : ~products[sess[u].lines[i].product_id].exists
       THEN \* the UPDATE of a deleted row matches nothing: StaleDataError
            /\ sess' = [sess EXCEPT ![u] = Rollback(sess[u])]
            /\ Reply("cancel_order", u, "store failure")
            /\ UNCHANGED <<products, orders, pre_stock>>
       ELSE /\ orders' = [orders EXCEPT ![sess[u].order_id].status = CANCELLED]
            /\ products' = RestoreStock(sess[u].lines)
            /\ pre_stock' = Disturbed(Touched(sess[u].lines))
            /\ sess' = [sess EXCEPT ![u] = IdleSession]
            /\ Reply("cancel_order", u, "cancelled")
    /\ UNCHANGED <<now, users, watch, reviews, categories, reqs, cart_items, order_items>>

(***************************************************************************)
(* services/order_service.py: update_order_status, and the two routes that *)
(* call it.                                                                *)
(***************************************************************************)
StatusUpdated(order, new_status) ==
    [order EXCEPT
       !.status = new_status,
       !.payment_status = IF new_status = DELIVERED THEN PAID
                          ELSE IF new_status = CANCELLED /\ @ = PAID THEN REFUNDED
                          ELSE @,
       !.delivered_at = IF new_status = DELIVERED THEN <<now>> ELSE @]

update_order_status(route, c, o, new_status) ==
    /\ IF o \notin 1..Len(orders)
       THEN /\ Reply(route, c, "Order not found")
            /\ UNCHANGED orders
       ELSE /\ orders' = [orders EXCEPT ![o] = StatusUpdated(orders[o], new_status)]
            /\ Reply(route, c, "ok")
    /\ UNCHANGED <<now, users, watch, reviews, categories, reqs, products, cart_items, order_items, sess, pre_stock>>

\* api/v1/order.py PUT /orders/{order_id}/status: no dependency on the caller
orders_update_order_status(c, o, new_status) ==
    update_order_status("orders.update_order_status", c, o, new_status)

\* api/v1/admin.py PUT /admin/orders/{order_id}/status
admin_update_order_status(c, o, new_status) ==
    IF get_current_admin_user(c)
    THEN update_order_status("admin.update_order_status", c, o, new_status)
    ELSE /\ Reply("admin.update_order_status", c,
                       IF get_current_user(c) THEN "Admin privileges required"
                       ELSE "Unauthorized")
         /\ UNCHANGED <<now, users, watch, reviews, categories, reqs, products, cart_items, orders, order_items, sess, pre_stock>>

(***************************************************************************)
(* services/product_service.py behind the /admin routes.                   *)
(***************************************************************************)
\* schemas/product.py ProductUpdate: price gt 0, stock_quantity ge 0
ProductUpdateValid(upd) ==
    /\ upd.price # <<>> => upd.price[1] > 0
    /\ upd.stock_quantity # <<>> => upd.stock_quantity[1] >= 0

\* setattr(product, field, value) for the fields the request sets
ProductUpdated(product, upd) ==
    [product EXCEPT
       !.price = IF upd.price # <<>> THEN upd.price[1] ELSE @,
       !.stock_quantity = IF upd.stock_quantity # <<>> THEN upd.stock_quantity[1] ELSE @,
       !.is_active = IF upd.is_active # <<>> THEN upd.is_active[1] ELSE @,
       !.name = IF upd.name # <<>> THEN upd.name[1] ELSE @,
       !.sku = IF upd.sku # <<>> THEN upd.sku[1] ELSE @]

update_product(c, p, upd) ==
    /\ get_current_admin_user(c)
    /\ IF ~ProductUpdateValid(upd)
       THEN /\ Reply("update_product", c, "validation error")
            /\ UNCHANGED <<products, pre_stock>>
       ELSE IF ~products[p].exists
       THEN /\ Reply("update_product", c, "Product not found")
            /\ UNCHANGED <<products, pre_stock>>
       ELSE /\ products' = [products EXCEPT ![p] = ProductUpdated(products[p], upd)]
            /\ pre_stock' = IF upd.stock_quantity # <<>> THEN Disturbed({p}) ELSE pre_stock
            /\ Reply("update_product", c, "ok")
    /\ UNCHANGED <<now, users, watch, reviews, categories, reqs, cart_items, orders, order_items, sess>>

\* as SetNull, with the order items deleted with their product
SetNullDeletes(ps) == {it \in order_items : it.product_id \notin ps}

\* Product.order_items has no cascade and OrderItem.product_id is nullable:
\* the order items of a deleted product stay and lose their reference
SetNull(ps) ==
    {IF it.product_id \in ps THEN [it EXCEPT !.product_id = Null] ELSE it : it \in order_items}

\* db.delete(product): cart rows and reviews go with it (cascade), order items
\* keep their snapshot and lose the reference
delete_product(c, p) ==
    /\ get_current_admin_user(c)
    /\ IF ~products[p].exists
       THEN /\ Reply("delete_product", c, "Product not found")
            /\ UNCHANGED <<products, cart_items, order_items, reviews>>
       ELSE /\ products' = [products EXCEPT ![p] = NoProduct]
            /\ cart_items' = {ci \in cart_items : ci.product_id # p}
            /\ reviews' = {rv \in reviews : rv.product_id # p}
            /\ order_items' = SetNull({p})
            /\ Reply("delete_product", c, "ok")
    /\ UNCHANGED <<now, users, watch, categories, reqs, orders, sess, pre_stock>>

(***************************************************************************)
(* services/category_service.py.  A category id is its index in the table; *)
(* a deleted row leaves its index unused.  Names stand by their rank in    *)
(* alphabetical order.  Each handler runs in two steps, its SELECTs with   *)
(* the checks and its COMMIT.  route is "categories" (api/v1/categories.py,*)
(* no authentication, ValueError answered with 400) or "admin"             *)
(* (api/v1/admin.py, admin only, ValueError not caught).                   *)
(***************************************************************************)
MaxCategories == 3

NoCategory ==
    [exists |-> FALSE, name |-> 0, slug |-> "", parent_id |-> NoId, display_order |-> 0,
     is_active |-> FALSE]

CategoryIds == {i \in 1..Len(categories) : categories[i].exists}

CategoryRoutes == {"categories", "admin"}

\* who may call the route
Admitted(route, c) == route = "categories" \/ get_current_admin_user(c)

\* a ValueError of the service, as the route answers it
Refused(route, reason) == IF route = "categories" THEN reason ELSE "Internal Server Error"

\* check_slug_availability(slug, category_id)
check_slug_availability(slug, category_id) ==
    \A i \in CategoryIds : categories[i].slug = slug => i = category_id

\* Category.products, Category.product_count
ProductsOf(id) == {p \in ProductIds : products[p].exists /\ products[p].category_id = id}

\* Category.subcategories, Category.has_subcategories
SubcategoriesOf(id) == {i \in CategoryIds : categories[i].parent_id = id}

\* as UniqueSlug, without the constraint
NoSlugConstraint(cs) == TRUE

\* Category.slug unique=True
UniqueSlug(cs) ==
    \A i \in 1..Len(cs), j \in 1..Len(cs) :
        (cs[i].exists /\ cs[j].exists /\ cs[i].slug = cs[j].slug) => i = j

\* Category.name unique=True
UniqueName(cs) ==
    \A i \in 1..Len(cs), j \in 1..Len(cs) :
        (cs[i].exists /\ cs[j].exists /\ cs[i].name = cs[j].name) => i = j

\* ForeignKey("categories.id") of parent_id
ParentsExist(cs) ==
    \A i \in 1..Len(cs) :
        (cs[i].exists /\ cs[i].parent_id # NoId)
        => (cs[i].parent_id \in 1..Len(cs) /\ cs[cs[i].parent_id].exists)

\* the table accepts the rows
Accepted(cs) == UniqueSlug(cs) /\ UniqueName(cs) /\ ParentsExist(cs)

create_category_load(r, route, c, body) ==
    /\ Admitted(route, c)
    /\ reqs[r].pc = "idle"
    /\ Len(categories) < MaxCategories
    /\ IF ~check_slug_availability(body.slug, NoId)
       THEN /\ Reply("create_category", c, Refused(route, "Slug is already in use"))
            /\ UNCHANGED reqs
       ELSE IF body.parent_id # NoId /\ body.parent_id \notin CategoryIds
       THEN /\ Reply("create_category", c, Refused(route, "Parent category not found"))
            /\ UNCHANGED reqs
       ELSE /\ reqs' = [reqs EXCEPT ![r] =
                   [pc |-> "create_category", by |-> c, target |-> NoId, body |-> body,
                    read |-> <<>>, met |-> {}]]
            /\ UNCHANGED last
    /\ UNCHANGED <<now, users, watch, reviews, categories, products, cart_items, orders, order_items,
                   sess, pre_stock>>

\* Category(**category_data.model_dump())
NewCategory(body) ==
    [exists |-> TRUE, name |-> body.name, slug |-> body.slug, parent_id |-> body.parent_id,
     display_order |-> body.display_order, is_active |-> body.is_active]

create_category_commit(r) ==
    /\ reqs[r].pc = "create_category"
    /\ LET inserted == Append(categories, NewCategory(reqs[r].body))
       IN  IF Len(categories) < MaxCategories /\ Accepted(inserted)
           THEN /\ categories' = inserted
                /\ Reply("create_category", reqs[r].by, "created")
           ELSE \* IntegrityError
                /\ Reply("create_category", reqs[r].by, "store failure")
                /\ UNCHANGED categories
    /\ reqs' = [reqs EXCEPT ![r] = IdleRequest]
    /\ UNCHANGED <<now, users, watch, reviews, products, cart_items, orders, order_items, sess,
                   pre_stock>>

\* if category_data.parent_id == category_id
SelfParent(category_id, parent_id) == parent_id = category_id

update_category_load(r, route, c, category_id, body) ==
    /\ Admitted(route, c)
    /\ reqs[r].pc = "idle"
    /\ IF category_id \notin CategoryIds
       THEN /\ Reply("update_category", c, "Category not found")
            /\ UNCHANGED reqs
       ELSE LET category == categories[category_id]
            IN  IF /\ body.slug # Unset
                   /\ body.slug[1] # category.slug
                   /\ ~check_slug_availability(body.slug[1], category_id)
                THEN /\ Reply("update_category", c, Refused(route, "Slug is already in use"))
                     /\ UNCHANGED reqs
                ELSE IF /\ body.parent_id # Unset
                        /\ body.parent_id[1] # NoId
                        /\ SelfParent(category_id, body.parent_id[1])
                THEN /\ Reply("update_category", c,
                              Refused(route, "Category cannot be its own parent"))
                     /\ UNCHANGED reqs
                ELSE IF /\ body.parent_id # Unset
                        /\ body.parent_id[1] # NoId
                        /\ body.parent_id[1] \notin CategoryIds
                THEN /\ Reply("update_category", c,
                              Refused(route, "Parent category not found"))
                     /\ UNCHANGED reqs
                ELSE /\ reqs' = [reqs EXCEPT ![r] =
                            [pc |-> "update_category", by |-> c, target |-> category_id,
                             body |-> body, read |-> category, met |-> {}]]
                     /\ UNCHANGED last
    /\ UNCHANGED <<now, users, watch, reviews, categories, products, cart_items, orders, order_items,
                   sess, pre_stock>>

\* setattr(category, field, value): the UPDATE writes the columns whose value
\* differs from the one that was read
CategoryUpdated(row, read, body) ==
    LET Written(field, old) ==
            IF body[field] # Unset /\ body[field][1] # read[field] THEN body[field][1] ELSE old
    IN  [row EXCEPT
           !.name = Written("name", @),
           !.slug = Written("slug", @),
           !.parent_id = Written("parent_id", @),
           !.display_order = Written("display_order", @),
           !.is_active = Written("is_active", @)]

update_category_commit(r) ==
    /\ reqs[r].pc = "update_category"
    /\ LET id      == reqs[r].target
           updated == [categories EXCEPT
                         ![id] = CategoryUpdated(@, reqs[r].read, reqs[r].body)]
       IN  IF id \in CategoryIds /\ Accepted(updated)
           THEN /\ categories' = updated
                /\ Reply("update_category", reqs[r].by, "ok")
           ELSE \* StaleDataError or IntegrityError
                /\ Reply("update_category", reqs[r].by, "store failure")
                /\ UNCHANGED categories
    /\ reqs' = [reqs EXCEPT ![r] = IdleRequest]
    /\ UNCHANGED <<now, users, watch, reviews, products, cart_items, orders, order_items, sess,
                   pre_stock>>

\* as Blocked, without the check of the subcategories
BlockedByProductsOnly(force, category_id) == ~force /\ ProductsOf(category_id) # {}

\* if not force and (category.product_count > 0 or category.has_subcategories)
Blocked(force, category_id) ==
    ~force /\ (ProductsOf(category_id) # {} \/ SubcategoriesOf(category_id) # {})

delete_category_load(r, route, c, category_id, force) ==
    /\ Admitted(route, c)
    /\ route = "admin" => ~force
    /\ reqs[r].pc = "idle"
    /\ IF category_id \notin CategoryIds
       THEN /\ Reply("delete_category", c, "Category not found")
            /\ UNCHANGED reqs
       ELSE IF Blocked(force, category_id)
       THEN /\ Reply("delete_category", c,
                     Refused(route, IF ProductsOf(category_id) # {}
                                    THEN "Category has products"
                                    ELSE "Category has subcategories"))
            /\ UNCHANGED reqs
       ELSE /\ reqs' = [reqs EXCEPT ![r] =
                   [pc |-> "delete_category", by |-> c, target |-> category_id,
                    body |-> force,
                    read |-> [products |-> ProductsOf(category_id),
                              subcategories |-> SubcategoriesOf(category_id)],
                    met |-> {}]]
            /\ UNCHANGED last
    /\ UNCHANGED <<now, users, watch, reviews, categories, products, cart_items, orders, order_items,
                   sess, pre_stock>>

\* ondelete="CASCADE" of parent_id: the rows under a deleted row go with it
RECURSIVE Cascade(_, _, _)
Cascade(cs, gone, fuel) ==
    LET more == {i \in 1..Len(cs) : cs[i].exists /\ cs[i].parent_id \in gone} \ gone
    IN  IF more = {} \/ fuel = 0 THEN gone ELSE Cascade(cs, gone \cup more, fuel - 1)

\* cascade="all, delete-orphan" of Category.products: the products that were
\* loaded with the category are deleted with it
OrphansDeleted(ps) == {p \in ps : products[p].exists}

\* the COMMIT of a deletion: the subcategories that were loaded get a null
\* parent, the products that were loaded are deleted with their cart items
\* and reviews,
\* the row of the category is deleted, and the database cascades to the
\* rows that still point to it
delete_category_commit(r) ==
    /\ reqs[r].pc = "delete_category"
    /\ LET id       == reqs[r].target
           subs     == reqs[r].read.subcategories
           deleted  == OrphansDeleted(reqs[r].read.products)
           promoted == [i \in 1..Len(categories) |->
                           IF i \in subs THEN [categories[i] EXCEPT !.parent_id = NoId]
                           ELSE categories[i]]
           gone     == IF id \in CategoryIds
                       THEN Cascade(promoted, {id}, MaxCategories) ELSE {}
       IN  IF subs \subseteq CategoryIds
           THEN /\ categories' = [i \in 1..Len(categories) |->
                                     IF i \in gone THEN NoCategory ELSE promoted[i]]
                /\ products' = [p \in ProductIds |->
                                   IF p \in deleted THEN NoProduct
                                   ELSE IF products[p].category_id \in gone
                                   THEN [products[p] EXCEPT !.category_id = NoId]
                                   ELSE products[p]]
                /\ cart_items' = {ci \in cart_items : ci.product_id \notin deleted}
                /\ reviews' = {rv \in reviews : rv.product_id \notin deleted}
                /\ order_items' = SetNull(deleted)
                /\ Reply("delete_category", reqs[r].by, "deleted")
           ELSE \* StaleDataError: a subcategory that was loaded is gone
                /\ Reply("delete_category", reqs[r].by, "store failure")
                /\ UNCHANGED <<categories, products, cart_items, order_items, reviews>>
    /\ reqs' = [reqs EXCEPT ![r] = IdleRequest]
    /\ UNCHANGED <<now, users, watch, orders, sess, pre_stock>>

(***************************************************************************)
(* get_category_tree.  The root categories come in the ORDER BY of the     *)
(* query; category.subcategories is loaded by a SELECT without ORDER BY.   *)
(***************************************************************************)
\* .order_by(Category.display_order.asc(), Category.name.asc())
Before(a, b) ==
    \/ categories[a].display_order < categories[b].display_order
    \/ /\ categories[a].display_order = categories[b].display_order
       /\ categories[a].name < categories[b].name

\* the ids of S in the order of the query
Sorted(S) ==
    CHOOSE seq \in Orderings(S) : \A i, j \in 1..Len(seq) : i < j => Before(seq[i], seq[j])

\* select(Category).where(Category.is_active == True): the keys of category_map
ActiveIds == {i \in CategoryIds : categories[i].is_active}

\* the orders in which the subcategories of each active category can be loaded
SubcategoryLoads == [ActiveIds -> UNION {Orderings(SubcategoriesOf(i)) : i \in ActiveIds}]

\* as InTree, without the filter
InTreeAll(id) == TRUE

\* if subcat.id in category_map and subcat.is_active
InTree(id) == id \in ActiveIds /\ categories[id].is_active

RECURSIVE build_category_tree_node(_, _, _)
build_category_tree_node(id, loaded, fuel) ==
    LET kept == IF fuel = 0 \/ id \notin DOMAIN loaded THEN <<>>
                ELSE SelectSeq(loaded[id], InTree)
    IN  [id |-> id,
         subcategories |->
            [k \in 1..Len(kept) |-> build_category_tree_node(kept[k], loaded, fuel - 1)]]

\* GET /categories/tree
get_category_tree(c) ==
    /\ \E loaded \in SubcategoryLoads :
          /\ \A i \in ActiveIds : loaded[i] \in Orderings(SubcategoriesOf(i))
          /\ LET roots == Sorted({i \in ActiveIds : categories[i].parent_id = NoId})
             IN  Reply("get_category_tree", c,
                       [k \in 1..Len(roots) |->
                           build_category_tree_node(roots[k], loaded, Len(categories))])
    /\ UNCHANGED <<now, users, watch, reviews, categories, reqs, products, cart_items, orders,
                   order_items, sess, pre_stock>>

\* a second passes
(***************************************************************************)
(* services/review_service.py behind api/v1/review.py.  create_review runs *)
(* in two steps, its two SELECTs and its COMMIT.  The reviews table has no *)
(* constraint on (user_id, product_id): models/review.py declares only the *)
(* check of the rating range.                                              *)
(***************************************************************************)
Ratings == {1, 5}

\* result.scalar_one_or_none() on the rows a SELECT returns
scalar_one_or_none(rows) ==
    IF rows = {} THEN "none"
    ELSE IF Cardinality(rows) = 1 THEN "one"
    ELSE "MultipleResultsFound"

\* select(Review).where(user_id == user_id, product_id == product_id)
ReviewsOf(u, p) == {rv \in reviews : rv.user_id = u /\ rv.product_id = p}

\* select(OrderItem).join(Order).where(Order.user_id == user_id,
\*                                     OrderItem.product_id == product_id)
PurchasesOf(u, p) ==
    {it \in order_items : it.product_id = p /\ orders[it.order_id].user_id = u}

\* uuid4: the k-th review of user u for product p is named <<u, p, k>>
FreshReviewId(u, p) ==
    <<u, p, CHOOSE k \in 0..Cardinality(reviews) :
                /\ \A rv \in reviews : rv.id # <<u, p, k>>
                /\ \A j \in 0..(k - 1) : \E rv \in reviews : rv.id = <<u, p, j>>>>

AlreadyReviewed == "You have already reviewed this product"

InternalServerError == "Internal Server Error"

create_review_load(r, u, p, rating) ==
    /\ get_current_user(u)
    /\ reqs[r].pc = "idle"
    /\ LET existing  == scalar_one_or_none(ReviewsOf(u, p))
           purchased == scalar_one_or_none(PurchasesOf(u, p))
       IN  IF existing = "MultipleResultsFound"
           THEN /\ Reply("create_review", u, InternalServerError)
                /\ UNCHANGED reqs
           ELSE IF existing = "one"
           THEN /\ Reply("create_review", u, AlreadyReviewed)
                /\ UNCHANGED reqs
           ELSE IF purchased = "MultipleResultsFound"
           THEN /\ Reply("create_review", u, InternalServerError)
                /\ UNCHANGED reqs
           ELSE /\ reqs' = [reqs EXCEPT ![r] =
                               [pc |-> "create_review", by |-> u, target |-> p,
                                body |-> rating,
                                read |-> [is_verified_purchase |-> purchased = "one"],
                                met |-> {}]]
                /\ UNCHANGED last
    /\ UNCHANGED <<now, users, watch, reviews, categories, products, cart_items, orders,
                   order_items, sess, pre_stock>>

\* the INSERT and the COMMIT; the foreign keys need the user and the product
create_review_commit(r) ==
    /\ reqs[r].pc = "create_review"
    /\ LET u == reqs[r].by
           p == reqs[r].target
       IN  IF products[p].exists /\ u \in DOMAIN users
           THEN /\ reviews' = reviews \cup
                      {[id |-> FreshReviewId(u, p), user_id |-> u, product_id |-> p,
                        rating |-> reqs[r].body,
                        is_verified_purchase |-> reqs[r].read.is_verified_purchase]}
                /\ Reply("create_review", u, "created")
           ELSE /\ Reply("create_review", u, "store failure")
                /\ UNCHANGED reviews
    /\ reqs' = [reqs EXCEPT ![r] = IdleRequest]
    /\ UNCHANGED <<now, users, watch, categories, products, cart_items, orders, order_items,
                   sess, pre_stock>>

ReviewNotFound == "Review not found or you don't have permission to update it"

update_review(u, review_id, rating) ==
    /\ get_current_user(u)
    /\ LET rows == {rv \in reviews : rv.id = review_id /\ rv.user_id = u}
       IN  IF rows = {}
           THEN /\ Reply("update_review", u, ReviewNotFound)
                /\ UNCHANGED reviews
           ELSE /\ reviews' = (reviews \ rows) \cup {[rv EXCEPT !.rating = rating] : rv \in rows}
                /\ Reply("update_review", u, "ok")
    /\ UNCHANGED <<now, users, watch, categories, reqs, products, cart_items, orders,
                   order_items, sess, pre_stock>>

delete_review(u, review_id) ==
    /\ get_current_user(u)
    /\ LET rows == {rv \in reviews : rv.id = review_id /\ rv.user_id = u}
       IN  IF rows = {}
           THEN /\ Reply("delete_review", u, "Review not found")
                /\ UNCHANGED reviews
           ELSE /\ reviews' = reviews \ rows
                /\ Reply("delete_review", u, "ok")
    /\ UNCHANGED <<now, users, watch, categories, reqs, products, cart_items, orders,
                   order_items, sess, pre_stock>>

(***************************************************************************)
(* The paginated listings: get_products, get_categories, get_all_orders,   *)
(* get_user_orders, get_product_reviews and get_users.  Each counts the    *)
(* matching rows, reads one page of them with OFFSET and LIMIT, and        *)
(* computes the number of pages in floating point.  The routes declare the *)
(* ranges of page and page_size, except GET /users/me/orders.              *)
(***************************************************************************)
\* total / page_size: the quotient of two ints, rounded to a double
FloatDivInt(total, page_size) ==
    Only({Round53(BigDivSmall(t, page_size), BigModSmall(t, page_size) # 0)
          : t \in {BigFromInt(total)}})

\* math.ceil(x) of a double x
Ceil(x) ==
    Only({xv[4] + Base * xv[5] + (IF \E i \in 1..3 : xv[i] # 0 THEN 1 ELSE 0) : xv \in {x}})

\* as total_pages, with the quotient rounded down
total_pages_floor(total, page_size, fallback) ==
    IF total > 0 THEN total \div page_size ELSE fallback

\* math.ceil(total / page_size) if total > 0 else fallback
total_pages(total, page_size, fallback) ==
    IF total > 0 THEN Ceil(FloatDivInt(total, page_size)) ELSE fallback

\* the listings: the route's bounds on page_size (none: <<>>), the number of
\* pages reported for no rows, and who may call
Listings ==
    {[op |-> "get_products",        le |-> <<100>>, fallback |-> 0, dep |-> "none"],
     [op |-> "get_categories",      le |-> <<100>>, fallback |-> 0, dep |-> "none"],
     [op |-> "get_all_orders",      le |-> <<100>>, fallback |-> 1, dep |-> "admin"],
     [op |-> "get_user_orders",     le |-> <<>>,    fallback |-> 1, dep |-> "user"],
     [op |-> "get_product_reviews", le |-> <<50>>,  fallback |-> 0, dep |-> "none"],
     [op |-> "get_users",           le |-> <<100>>, fallback |-> 1, dep |-> "admin"]}

ListingOps == {l.op : l \in Listings}

\* the rows the listing's query matches for caller c, in the order of its
\* ORDER BY
RowsOf(op, c) ==
    IF op = "get_products"
    THEN CHOOSE s \in Orderings({p \in ProductIds :
                                    products[p].exists /\ products[p].is_active}) : TRUE
    ELSE IF op = "get_categories"
    THEN Sorted(CategoryIds)
    ELSE IF op = "get_all_orders"
    THEN [i \in 1..Len(orders) |-> Len(orders) + 1 - i]
    ELSE IF op = "get_user_orders"
    THEN SelectSeq([i \in 1..Len(orders) |-> Len(orders) + 1 - i],
                   LAMBDA i : orders[i].user_id = c)
    ELSE IF op = "get_product_reviews"
    THEN CHOOSE s \in Orderings({rv.id : rv \in {x \in reviews : x.product_id = "p1"}}) : TRUE
    ELSE CHOOSE s \in Orderings(DOMAIN users) : TRUE

\* Query(ge=1) and Query(ge=1, le=...) of the route
QueryValid(l, page, page_size) ==
    l.le # <<>> => page >= 1 /\ page_size >= 1 /\ page_size <= l.le[1]

\* query.offset(offset).limit(page_size): the database refuses a negative
\* OFFSET or LIMIT
Page(rows, offset, limit) ==
    [i \in 1..(IF Len(rows) - offset < limit
               THEN (IF Len(rows) - offset < 0 THEN 0 ELSE Len(rows) - offset)
               ELSE limit) |-> rows[offset + i]]

ValidationError == "validation error"

Listed(page, page_size, status) ==
    [status |-> status, page |-> page, page_size |-> page_size]

(***************************************************************************)
(* services/admin_service.py behind the user routes of api/v1/admin.py.    *)
(* A request runs in two steps: the dependency get_current_admin_user, the *)
(* check of the route and the SELECT of the user; then the COMMIT.         *)
(***************************************************************************)
\* schemas/user.py AdminUserUpdate, the fields the model keeps
NoUserUpdate == [is_active |-> Unset, is_admin |-> Unset]

\* bodies of PUT /admin/users/{user_id}: one field each
UserUpdates ==
    {[NoUserUpdate EXCEPT !.is_active = <<FALSE>>],
     [NoUserUpdate EXCEPT !.is_active = <<TRUE>>],
     [NoUserUpdate EXCEPT !.is_admin = <<FALSE>>]}

\* the route refuses what the caller asks on their own account
SelfRefused(op, c, user_id, body) ==
    /\ user_id = c
    /\ \/ op = "update_user" /\ body.is_admin = <<FALSE>>
       \/ op = "delete_user"
       \/ op = "revoke_admin"

SelfReason(op) ==
    IF op = "update_user" THEN "Cannot remove your own admin privileges"
    ELSE IF op = "delete_user" THEN "Cannot delete your own account"
    ELSE "Cannot revoke your own admin privileges"

\* what the service function assigns to the user it loaded
Assigned(op, body) ==
    IF op = "update_user" THEN body
    ELSE IF op = "delete_user" THEN [NoUserUpdate EXCEPT !.is_active = <<FALSE>>]
    ELSE IF op = "make_admin" THEN [NoUserUpdate EXCEPT !.is_admin = <<TRUE>>]
    ELSE [NoUserUpdate EXCEPT !.is_admin = <<FALSE>>]

\* the UPDATE of the commit sets the columns whose assigned value differs
\* from the value the session loaded
UserWritten(row, read, body) ==
    [row EXCEPT
       !.is_active = IF body.is_active # Unset /\ body.is_active[1] # read.is_active
                     THEN body.is_active[1] ELSE @,
       !.is_admin  = IF body.is_admin # Unset /\ body.is_admin[1] # read.is_admin
                     THEN body.is_admin[1] ELSE @]

admin_user_load(r, op, c, user_id, body) ==
    /\ reqs[r].pc = "idle"
    /\ IF ~get_current_admin_user(c)
       THEN /\ Reply(op, c, IF get_current_user(c) THEN "Admin privileges required"
                            ELSE "Unauthorized")
            /\ UNCHANGED reqs
       ELSE IF SelfRefused(op, c, user_id, body)
       THEN /\ Reply(op, c, SelfReason(op))
            /\ UNCHANGED reqs
       ELSE IF user_id \notin DOMAIN users
       THEN /\ Reply(op, c, "User not found")
            /\ UNCHANGED reqs
       ELSE /\ reqs' = [reqs EXCEPT ![r] =
                   [pc |-> op, by |-> c, target |-> user_id, body |-> Assigned(op, body),
                    read |-> users[user_id], met |-> {}]]
            /\ UNCHANGED last
    /\ UNCHANGED <<now, users, watch, reviews, categories, products, cart_items, orders,
                   order_items, sess, pre_stock>>

admin_user_commit(r, op) ==
    /\ reqs[r].pc = op
    /\ users' = [users EXCEPT ![reqs[r].target] = UserWritten(@, reqs[r].read, reqs[r].body)]
    /\ Reply(op, reqs[r].by, "ok")
    /\ reqs' = [reqs EXCEPT ![r] = IdleRequest]
    /\ UNCHANGED <<now, watch, reviews, categories, products, cart_items, orders, order_items,
                   sess, pre_stock>>

\* PUT /admin/users/{user_id}
update_user_load(r, c, user_id, body) == admin_user_load(r, "update_user", c, user_id, body)

update_user_commit(r) == admin_user_commit(r, "update_user")

\* DELETE /admin/users/{user_id}
delete_user_load(r, c, user_id) == admin_user_load(r, "delete_user", c, user_id, NoUserUpdate)

delete_user_commit(r) == admin_user_commit(r, "delete_user")

\* POST /admin/users/{user_id}/make-admin
make_admin_load(r, c, user_id) == admin_user_load(r, "make_admin", c, user_id, NoUserUpdate)

make_admin_commit(r) == admin_user_commit(r, "make_admin")

\* POST /admin/users/{user_id}/revoke-admin
revoke_admin_load(r, c, user_id) == admin_user_load(r, "revoke_admin", c, user_id, NoUserUpdate)

revoke_admin_commit(r) == admin_user_commit(r, "revoke_admin")

get_listing(l, c, page, page_size) ==
    /\ \/ l.dep = "none"
       \/ l.dep = "user" /\ get_current_user(c)
       \/ l.dep = "admin" /\ get_current_admin_user(c)
    /\ IF ~QueryValid(l, page, page_size)
       THEN Reply(l.op, c, Listed(page, page_size, ValidationError))
       ELSE LET rows   == RowsOf(l.op, c)
                total  == Len(rows)
                offset == (page - 1) * page_size
            IN  IF offset < 0 \/ page_size < 0
                THEN \* the SELECT fails in the database
                     Reply(l.op, c, Listed(page, page_size, InternalServerError))
                ELSE IF total > 0 /\ page_size = 0
                THEN \* ZeroDivisionError
                     Reply(l.op, c, Listed(page, page_size, InternalServerError))
                ELSE Reply(l.op, c,
                           [status |-> "ok", page |-> page, page_size |-> page_size,
                            items |-> Page(rows, offset, page_size), total |-> total,
                            total_pages |-> total_pages(total, page_size, l.fallback)])
    /\ UNCHANGED <<now, users, watch, reviews, categories, reqs, products, cart_items, orders,
                   order_items, sess, pre_stock>>

Tick ==
    /\ now < MaxTime
    /\ now' = now + 1
    /\ UNCHANGED <<users, watch, reviews, categories, reqs, products, cart_items, orders, order_items, sess, last, pre_stock>>

(***************************************************************************)
(* Request bodies and initial stores the specifications draw from.         *)
(***************************************************************************)
NoUpdate ==
    [price |-> Unset, stock_quantity |-> Unset, is_active |-> Unset, name |-> Unset,
     sku |-> Unset]

\* bodies of PUT /admin/products/{id} that set the stock (one of them invalid)
StockUpdates == {[NoUpdate EXCEPT !.stock_quantity = <<n>>] : n \in {0 - 1, 0, MaxStock}}

PriceUpdates(prices) == {[NoUpdate EXCEPT !.price = <<c>>] : c \in prices}

InitUsers ==
    [u \in UserIds |-> [is_active |-> TRUE, is_admin |-> (u = "adm")]]

NewProduct(price, stock) ==
    [exists |-> TRUE, is_active |-> TRUE, price |-> price, stock_quantity |-> stock,
     category_id |-> NoId, name |-> "name", sku |-> "sku"]

NoResponse == Response("none", Anonymous, "none")

(***************************************************************************)
(* Spec: the order workflow on one product.  The requests of the two       *)
(* shoppers interleave at their steps while the admin edits the product    *)
(* and the orders.                                                         *)
(***************************************************************************)
Init ==
    /\ now = 0
    /\ users = InitUsers
    /\ products = [p \in ProductIds |-> NewProduct(Cents(2500), MaxStock)]
    /\ cart_items = {}
    /\ orders = <<>>
    /\ order_items = {}
    /\ sess = [u \in Shoppers |-> IdleSession]
    /\ watch = {}
    /\ last = NoResponse
    /\ pre_stock = <<>>
    /\ categories = <<>>
    /\ reqs = NoRequests
    /\ reviews = {}

Next ==
    \/ \E u \in Shoppers, q \in 1..MaxQty : add_to_cart(u, "p1", q)
    \/ \E u \in Shoppers, q \in 1..MaxQty : update_cart_item(u, NewCartItemId(u, "p1"), q)
    \/ \E u \in Shoppers : create_order_load(u)
    \/ \E u \in Shoppers : create_order_flush(u)
    \/ \E u \in Shoppers : create_order_commit(u)
    \/ \E u \in Shoppers : create_order_abort(u)
    \/ \E u \in Shoppers, o \in 1..MaxOrders : cancel_order_load(u, o)
    \/ \E u \in Shoppers : cancel_order_restore(u)
    \/ \E u \in Shoppers : cancel_order_commit(u)
    \/ \E o \in 1..MaxOrders, s \in {SHIPPED} : admin_update_order_status("adm", o, s)
    \/ \E upd \in StockUpdates : update_product("adm", "p1", upd)
    \/ delete_product("adm", "p1")
    \/ Tick

Spec == Init /\ [][Next]_vars

(***************************************************************************)
(* SpecSerial: checkout and cancellation on two products, one request at a *)
(* time: a request starts only when no other is in flight.  The store      *)
(* starts with any products and carts that earlier requests can have left; *)
(* every caller is watched.                                                *)
(***************************************************************************)
Quiet == \A u \in Shoppers : sess[u].pc = "idle"

\* the cart rows of shopper u, given the quantity of each product (0: no row)
CartRows(u, qty) ==
    {[id |-> NewCartItemId(u, p), user_id |-> u, product_id |-> p, quantity |-> qty[p]]
        : p \in {x \in ProductIds : qty[x] > 0}}

\* product rows an admin can have left: active or not, any stock
ProductRows ==
    {[NewProduct(Cents(2500), n) EXCEPT !.is_active = b] : n \in 0..MaxStock, b \in BOOLEAN}

InitSerial ==
    /\ now = 0
    /\ users = InitUsers
    /\ products \in [ProductIds -> ProductRows]
    /\ \E q1 \in [ProductIds -> 0..MaxQty], q2 \in 0..1 :
          cart_items = CartRows("u1", q1)
                         \cup CartRows("u2", [p \in ProductIds |-> IF p = "p1" THEN q2 ELSE 0])
    /\ orders = <<>>
    /\ order_items = {}
    /\ sess = [u \in Shoppers |-> IdleSession]
    /\ watch = Callers
    /\ last = NoResponse
    /\ pre_stock = <<>>
    /\ categories = <<>>
    /\ reqs = NoRequests
    /\ reviews = {}

NextSerial ==
    \/ Quiet /\ \E u \in Shoppers : create_order_load(u)
    \/ \E u \in Shoppers : create_order_flush(u)
    \/ \E u \in Shoppers : create_order_commit(u)
    \/ \E u \in Shoppers : create_order_abort(u)
    \/ Quiet /\ \E u \in Shoppers, o \in 1..MaxOrders : cancel_order_load(u, o)
    \/ \E u \in Shoppers : cancel_order_restore(u)
    \/ \E u \in Shoppers : cancel_order_commit(u)
    \/ Quiet /\ \E p \in ProductIds, upd \in StockUpdates : update_product("adm", p, upd)
    \/ Quiet /\ \E p \in ProductIds : delete_product("adm", p)
    \/ Tick

SpecSerial == InitSerial /\ [][NextSerial]_vars

(***************************************************************************)
(* SpecPricing: one shopper orders a cart of two products priced around    *)
(* the free shipping threshold; afterwards the order is cancelled or       *)
(* delivered and the admin edits the prices.  One request at a time.       *)
(***************************************************************************)
\* prices in hundredths: 0.20, 1666.60, 2500.00, 4999.00
PriceSet == {20, 166660, Cents(2500), Cents(4999)}

InitPricing ==
    /\ now = 0
    /\ users = InitUsers
    /\ products \in [ProductIds -> {NewProduct(c, MaxLineQty) : c \in PriceSet}]
    /\ \E q \in [ProductIds -> 0..MaxLineQty] : cart_items = CartRows("u1", q)
    /\ orders = <<>>
    /\ order_items = {}
    /\ sess = [u \in Shoppers |-> IdleSession]
    /\ watch = {}
    /\ last = NoResponse
    /\ pre_stock = <<>>
    /\ categories = <<>>
    /\ reqs = NoRequests
    /\ reviews = {}

NextPricing ==
    \/ Quiet /\ create_order_load("u1")
    \/ create_order_flush("u1")
    \/ create_order_commit("u1")
    \/ Quiet /\ \E o \in 1..MaxOrders : cancel_order_load("u1", o)
    \/ cancel_order_restore("u1")
    \/ cancel_order_commit("u1")
    \/ Quiet /\ \E o \in 1..MaxOrders : admin_update_order_status("adm", o, DELIVERED)
    \/ Quiet /\ \E p \in ProductIds, upd \in PriceUpdates(PriceSet) : update_product("adm", p, upd)

SpecPricing == InitPricing /\ [][NextPricing]_vars

(***************************************************************************)
(* SpecStatus: the life of one order.  Its owner places it and may cancel  *)
(* it while every caller, the visitor included, sends status updates on    *)
(* both routes; the steps of the owner's requests interleave with them.    *)
(***************************************************************************)
InitStatus ==
    /\ now = 0
    /\ users = InitUsers
    /\ products = [p \in ProductIds |-> NewProduct(Cents(2500), MaxStock)]
    /\ cart_items = CartRows("u1", [p \in ProductIds |-> IF p = "p1" THEN 1 ELSE 0])
    /\ orders = <<>>
    /\ order_items = {}
    /\ sess = [u \in Shoppers |-> IdleSession]
    /\ watch = Callers
    /\ last = NoResponse
    /\ pre_stock = <<>>
    /\ categories = <<>>
    /\ reqs = NoRequests
    /\ reviews = {}

\* cancelling an order again and again restocks without end: the run stops
\* cancelling once a stock has passed the bound
StockWithinBound == \A p \in ProductIds : products[p].stock_quantity <= MaxStock

NextStatus ==
    \/ create_order_load("u1")
    \/ create_order_flush("u1")
    \/ create_order_commit("u1")
    \/ StockWithinBound /\ \E u \in Shoppers, o \in 1..MaxOrders : cancel_order_load(u, o)
    \/ \E u \in Shoppers : cancel_order_restore(u)
    \/ \E u \in Shoppers : cancel_order_commit(u)
    \/ \E c \in Callers, o \in 1..MaxOrders, s \in OrderStatus :
          orders_update_order_status(c, o, s)
    \/ \E c \in Callers, o \in 1..MaxOrders, s \in OrderStatus :
          admin_update_order_status(c, o, s)
    \/ Tick

SpecStatus == InitStatus /\ [][NextStatus]_vars

(***************************************************************************)
(* SpecOwner: one request at a time; u1 shops, orders and cancels, and     *)
(* also names ids that do not exist; u2 names the cart items and orders    *)
(* that u1 has.  All of it happens within one second.                      *)
(***************************************************************************)
\* the names of the rows u1's cart can hold
OwnerItemIds == {NewCartItemId("u1", p) : p \in ProductIds}

InitOwner ==
    /\ now = 0
    /\ users = InitUsers
    /\ products = [p \in ProductIds |-> NewProduct(Cents(2500), MaxStock)]
    /\ cart_items = {}
    /\ orders = <<>>
    /\ order_items = {}
    /\ sess = [u \in Shoppers |-> IdleSession]
    /\ watch = Callers
    /\ last = NoResponse
    /\ pre_stock = <<>>
    /\ categories = <<>>
    /\ reqs = NoRequests
    /\ reviews = {}

NextOwner ==
    \/ \E p \in ProductIds, q \in 1..MaxQty : Quiet /\ add_to_cart("u1", p, q)
    \/ \E id \in OwnerItemIds, q \in 1..MaxQty : Quiet /\ update_cart_item("u1", id, q)
    \/ \E id \in OwnerItemIds : Quiet /\ remove_from_cart("u1", id)
    \/ Quiet /\ clear_cart("u1")
    \/ \E ci \in CartOf("u1"), q \in 1..MaxQty : Quiet /\ update_cart_item("u2", ci.id, q)
    \/ \E ci \in CartOf("u1") : Quiet /\ remove_from_cart("u2", ci.id)
    \/ \E o \in 1..MaxOrders : Quiet /\ get_order("u1", o)
    \/ \E o \in 1..Len(orders) : Quiet /\ get_order("u2", o)
    \/ Quiet /\ create_order_load("u1")
    \/ create_order_flush("u1")
    \/ create_order_commit("u1")
    \/ \E o \in 1..MaxOrders : Quiet /\ cancel_order_load("u1", o)
    \/ \E o \in 1..Len(orders) : Quiet /\ cancel_order_load("u2", o)
    \/ cancel_order_restore("u1")
    \/ cancel_order_commit("u1")

SpecOwner == InitOwner /\ [][NextOwner]_vars

(***************************************************************************)
(* SpecCart: the cart of u1 for product p1, with two add_to_cart requests  *)
(* in flight at a time beside the other cart operations and the checkout,  *)
(* all within one second.                                                  *)
(***************************************************************************)
InitCart ==
    /\ now = 0
    /\ users = InitUsers
    /\ products = [p \in ProductIds |-> NewProduct(Cents(2500), MaxStock)]
    /\ cart_items = {}
    /\ orders = <<>>
    /\ order_items = {}
    /\ sess = [u \in Shoppers |-> IdleSession]
    /\ watch = Callers
    /\ last = NoResponse
    /\ pre_stock = <<>>
    /\ categories = <<>>
    /\ reqs = NoRequests
    /\ reviews = {}

NextCart ==
    \/ \E r \in Slots, q \in 1..MaxQty : add_to_cart_load(r, "u1", "p1", q)
    \/ \E r \in Slots : add_to_cart_commit(r)
    \/ \E ci \in cart_items, q \in 1..MaxQty : update_cart_item("u1", ci.id, q)
    \/ \E ci \in cart_items : remove_from_cart("u1", ci.id)
    \/ clear_cart("u1")
    \/ create_order_load("u1")
    \/ create_order_flush("u1")
    \/ create_order_commit("u1")
    \/ create_order_abort("u1")
    \/ delete_product("adm", "p1")

SpecCart == InitCart /\ [][NextCart]_vars

(***************************************************************************)
(* SpecCategory: the category requests of both routers, one at a time.     *)
(* No request body carries a product's category_id: products are attached  *)
(* to categories by whoever loads the tables, so the store starts with one *)
(* category and with product p1 attached to it or to none.  Each new       *)
(* category gets the next name.                                            *)
(***************************************************************************)
CategoryNames == 1..MaxCategories

\* generate_slug(name): lower case, runs of other characters replaced by "-"
generate_slug(name) == <<"s1", "s2", "s3", "s4", "s5">>[name]

\* bodies of POST /categories whose slug is made from the name
CreateBodies ==
    {[name |-> n, slug |-> generate_slug(n), parent_id |-> par, display_order |-> 0,
      is_active |-> TRUE]
        : n \in CategoryNames, par \in {NoId} \cup (1..MaxCategories)}

NoCategoryUpdate ==
    [name |-> Unset, slug |-> Unset, parent_id |-> Unset, display_order |-> Unset,
     is_active |-> Unset]

\* bodies of PUT /categories/{id} that move a category
UpdateBodies ==
    {[NoCategoryUpdate EXCEPT !.parent_id = <<par>>] : par \in {NoId} \cup (1..MaxCategories)}

\* the caller of a request on the route
CallerOn(route) == IF route = "admin" THEN "adm" ELSE Anonymous

InitCategory ==
    /\ now = 0
    /\ users = InitUsers
    /\ categories = <<NewCategory([name |-> 1, slug |-> generate_slug(1), parent_id |-> NoId,
                                   display_order |-> 0, is_active |-> TRUE])>>
    /\ \E cid \in {NoId, 1} :
          products = [p \in ProductIds |->
                        [NewProduct(Cents(2500), MaxStock) EXCEPT
                           !.category_id = IF p = "p1" THEN cid ELSE NoId]]
    /\ cart_items = CartRows("u1", [p \in ProductIds |-> IF p = "p1" THEN 1 ELSE 0])
    /\ orders = <<>>
    /\ order_items = {}
    /\ sess = [u \in Shoppers |-> IdleSession]
    /\ watch = Callers
    /\ last = NoResponse
    /\ pre_stock = <<>>
    /\ reqs = NoRequests
    /\ reviews = {}

NextCategory ==
    \/ \E route \in CategoryRoutes, body \in CreateBodies :
          /\ body.name = Len(categories) + 1
          /\ create_category_load("r1", route, CallerOn(route), body)
    \/ create_category_commit("r1")
    \/ \E route \in CategoryRoutes, id \in 1..MaxCategories, body \in UpdateBodies :
          update_category_load("r1", route, CallerOn(route), id, body)
    \/ update_category_commit("r1")
    \/ \E route \in CategoryRoutes, id \in 1..MaxCategories, force \in BOOLEAN :
          delete_category_load("r1", route, CallerOn(route), id, force)
    \/ delete_category_commit("r1")

SpecCategory == InitCategory /\ [][NextCategory]_vars

(***************************************************************************)
(* SpecSlug: category requests of the /categories router, two in flight at *)
(* a time, with names and slugs chosen apart.                              *)
(***************************************************************************)
Slugs == {"s1", "s2"}

SlugBodies ==
    {[name |-> n, slug |-> sl, parent_id |-> NoId, display_order |-> 0, is_active |-> TRUE]
        : n \in CategoryNames, sl \in Slugs}

\* bodies of PUT /categories/{id} that change the slug
SlugUpdates == {[NoCategoryUpdate EXCEPT !.slug = <<sl>>] : sl \in Slugs}

InitSlug ==
    /\ now = 0
    /\ users = InitUsers
    /\ categories = <<>>
    /\ products = [p \in ProductIds |-> NewProduct(Cents(2500), MaxStock)]
    /\ cart_items = {}
    /\ orders = <<>>
    /\ order_items = {}
    /\ sess = [u \in Shoppers |-> IdleSession]
    /\ watch = Callers
    /\ last = NoResponse
    /\ pre_stock = <<>>
    /\ reqs = NoRequests
    /\ reviews = {}

NextSlug ==
    \/ \E r \in Slots, body \in SlugBodies :
          create_category_load(r, "categories", Anonymous, body)
    \/ \E r \in Slots : create_category_commit(r)
    \/ \E r \in Slots, id \in 1..MaxCategories, body \in SlugUpdates :
          update_category_load(r, "categories", Anonymous, id, body)
    \/ \E r \in Slots : update_category_commit(r)
    \/ \E r \in Slots, id \in 1..MaxCategories :
          delete_category_load(r, "categories", Anonymous, id, TRUE)
    \/ \E r \in Slots : delete_category_commit(r)

SpecSlug == InitSlug /\ [][NextSlug]_vars

(***************************************************************************)
(* SpecTree: get_category_tree on every table of MaxTreeSize categories    *)
(* that the requests can leave: each category under any other or under     *)
(* none, shown or hidden, with either display order.  The categories are   *)
(* numbered in the order of their names.                                   *)
(***************************************************************************)
MaxTreeSize == 3

DisplayOrders == {0, 1}

TreeRows(i) ==
    {[exists |-> TRUE, name |-> i, slug |-> generate_slug(i), parent_id |-> par,
      display_order |-> d, is_active |-> a]
        : par \in ({NoId} \cup (1..MaxTreeSize)) \ {i}, d \in DisplayOrders, a \in BOOLEAN}

InitTree ==
    /\ now = 0
    /\ users = InitUsers
    /\ categories \in {cs \in [1..MaxTreeSize -> UNION {TreeRows(i) : i \in 1..MaxTreeSize}] :
                          \A i \in 1..MaxTreeSize : cs[i] \in TreeRows(i)}
    /\ products = [p \in ProductIds |-> NewProduct(Cents(2500), MaxStock)]
    /\ cart_items = {}
    /\ orders = <<>>
    /\ order_items = {}
    /\ sess = [u \in Shoppers |-> IdleSession]
    /\ watch = Callers
    /\ last = NoResponse
    /\ pre_stock = <<>>
    /\ reqs = NoRequests
    /\ reviews = {}

NextTree == get_category_tree(Anonymous)

SpecTree == InitTree /\ [][NextTree]_vars

(***************************************************************************)
(* SpecReview: the review requests of the two shoppers for product p1, two *)
(* create_review requests in flight at a time.  The store starts with the  *)
(* order history earlier checkouts can have left: up to MaxHistory orders, *)
(* each of one shopper for one unit of one product, placed in different    *)
(* seconds.                                                                *)
(***************************************************************************)
MaxHistory == 2

\* the cart line of one unit of product p, loaded with its product
HistoryLines(p) ==
    LoadLines(<<[product_id |-> p, quantity |-> 1]>>)

\* histories of n orders: who ordered, and what
Histories(n) == [1..n -> Shoppers \X ProductIds]

InitReview ==
    /\ now = 0
    /\ users = InitUsers
    /\ products = [p \in ProductIds |-> NewProduct(Cents(2500), MaxStock)]
    /\ cart_items = {}
    /\ \E n \in 0..MaxHistory : \E h \in Histories(n) :
          /\ orders = [i \in 1..n |-> NewOrder(h[i][1], HistoryLines(h[i][2]), i - n - 1)]
          /\ order_items = UNION {NewOrderItems(i, HistoryLines(h[i][2])) : i \in 1..n}
          /\ pre_stock = [i \in 1..n |-> [p \in ProductIds |-> NoStock]]
    /\ sess = [u \in Shoppers |-> IdleSession]
    /\ watch = Callers
    /\ last = NoResponse
    /\ categories = <<>>
    /\ reqs = NoRequests
    /\ reviews = {}

NextReview ==
    \/ \E r \in Slots, u \in Shoppers : create_review_load(r, u, "p1", 5)
    \/ \E r \in Slots : create_review_commit(r)
    \/ \E rv \in reviews, rating \in Ratings : update_review(rv.user_id, rv.id, rating)
    \/ \E rv \in reviews, u \in Shoppers : delete_review(u, rv.id)
    \/ delete_product("adm", "p1")

SpecReview == InitReview /\ [][NextReview]_vars

(***************************************************************************)
(* SpecItems: the order items of one shopper's orders while the admin      *)
(* renames, reprices and deletes the products and moves the orders, and    *)
(* the shopper cancels them.  The steps of the requests interleave; all of *)
(* it happens within one second.                                           *)
(***************************************************************************)
\* bodies of PUT /admin/products/{id} that set the name, the SKU or the price
ItemEdits ==
    {[NoUpdate EXCEPT !.name = <<"renamed">>, !.sku = <<"resku">>],
     [NoUpdate EXCEPT !.price = <<Cents(4999)>>]}

InitItems ==
    /\ now = 0
    /\ users = InitUsers
    /\ products = [p \in ProductIds |-> NewProduct(Cents(2500), MaxStock)]
    /\ \E q \in [ProductIds -> 0..MaxQty] : cart_items = CartRows("u1", q)
    /\ orders = <<>>
    /\ order_items = {}
    /\ sess = [u \in Shoppers |-> IdleSession]
    /\ watch = {}
    /\ last = NoResponse
    /\ pre_stock = <<>>
    /\ categories = <<>>
    /\ reqs = NoRequests
    /\ reviews = {}

NextItems ==
    \/ create_order_load("u1")
    \/ create_order_flush("u1")
    \/ create_order_commit("u1")
    \/ \E o \in 1..MaxOrders : StockWithinBound /\ cancel_order_load("u1", o)
    \/ cancel_order_restore("u1")
    \/ cancel_order_commit("u1")
    \/ \E o \in 1..MaxOrders, st \in {CONFIRMED, DELIVERED} :
          admin_update_order_status("adm", o, st)
    \/ \E p \in ProductIds, upd \in ItemEdits : update_product("adm", p, upd)
    \/ \E p \in ProductIds : delete_product("adm", p)

SpecItems == InitItems /\ [][NextItems]_vars

(***************************************************************************)
(* SpecListing: every listing, called by a shopper, the admin and a        *)
(* visitor, for pages and page sizes inside and outside the declared       *)
(* ranges, on a store holding up to MaxRows orders, placed by the two      *)
(* shoppers in turn.                                                       *)
(***************************************************************************)
MaxRows == 4

MaxPage == 3

Pages == (0 - 1)..MaxPage

PageSizes == ((0 - 1)..MaxPage) \cup {51, 100, 101}

InitListing ==
    /\ now = 0
    /\ users = InitUsers
    /\ products = [p \in ProductIds |-> NewProduct(Cents(2500), MaxStock)]
    /\ cart_items = {}
    /\ \E n \in 0..MaxRows :
          /\ orders = [i \in 1..n |-> NewOrder(IF i % 2 = 1 THEN "u1" ELSE "u2",
                                                HistoryLines("p1"), i - n - 1)]
          /\ order_items = UNION {NewOrderItems(i, HistoryLines("p1")) : i \in 1..n}
          /\ pre_stock = [i \in 1..n |-> [p \in ProductIds |-> NoStock]]
    /\ sess = [u \in Shoppers |-> IdleSession]
    /\ watch = Callers
    /\ last = NoResponse
    /\ categories = <<>>
    /\ reqs = NoRequests
    /\ reviews = {}

NextListing ==
    \E l \in Listings, c \in {"u1", "adm", Anonymous}, page \in Pages, page_size \in PageSizes :
        get_listing(l, c, page, page_size)

SpecListing == InitListing /\ [][NextListing]_vars

(***************************************************************************)
(* SpecStock: only create_order and cancel_order, the requests of the two  *)
(* shoppers interleaved at their steps, on the carts the shoppers hold.    *)
(***************************************************************************)
InitStock ==
    /\ now = 0
    /\ users = InitUsers
    /\ products = [p \in ProductIds |-> NewProduct(Cents(2500), MaxStock)]
    /\ \E q1 \in 1..MaxQty, q2 \in 1..MaxQty :
          cart_items = CartRows("u1", [p \in ProductIds |-> IF p = "p1" THEN q1 ELSE 0])
                         \cup CartRows("u2", [p \in ProductIds |-> IF p = "p1" THEN q2 ELSE 0])
    /\ orders = <<>>
    /\ order_items = {}
    /\ sess = [u \in Shoppers |-> IdleSession]
    /\ watch = {}
    /\ last = NoResponse
    /\ pre_stock = <<>>
    /\ categories = <<>>
    /\ reqs = NoRequests
    /\ reviews = {}

NextStock ==
    \/ \E u \in Shoppers : create_order_load(u)
    \/ \E u \in Shoppers : create_order_flush(u)
    \/ \E u \in Shoppers : create_order_commit(u)
    \/ \E u \in Shoppers, o \in 1..MaxOrders : cancel_order_load(u, o)
    \/ \E u \in Shoppers : cancel_order_restore(u)
    \/ \E u \in Shoppers : cancel_order_commit(u)
    \/ Tick

SpecStock == InitStock /\ [][NextStock]_vars

(***************************************************************************)
(* SpecNumber: the two shoppers, whose ids start with the same four        *)
(* characters, fill their carts and order, one request at a time, while    *)
(* the clock runs.  Nothing else writes the store.                         *)
(***************************************************************************)
InitNumber ==
    /\ now = 0
    /\ users = InitUsers
    /\ products = [p \in ProductIds |-> NewProduct(Cents(2500), MaxStock)]
    /\ \E q \in 0..1 :
          cart_items = CartRows("u1", [p \in ProductIds |-> IF p = "p1" THEN 1 ELSE 0])
                         \cup CartRows("u2", [p \in ProductIds |-> IF p = "p2" THEN q ELSE 0])
    /\ orders = <<>>
    /\ order_items = {}
    /\ sess = [u \in Shoppers |-> IdleSession]
    /\ watch = Callers
    /\ last = NoResponse
    /\ pre_stock = <<>>
    /\ categories = <<>>
    /\ reqs = NoRequests
    /\ reviews = {}

NextNumber ==
    \/ Quiet /\ \E u \in Shoppers, p \in ProductIds : add_to_cart(u, p, 1)
    \/ Quiet /\ \E u \in Shoppers : create_order_load(u)
    \/ \E u \in Shoppers : create_order_flush(u)
    \/ \E u \in Shoppers : create_order_commit(u)
    \/ Tick

SpecNumber == InitNumber /\ [][NextNumber]_vars

(***************************************************************************)
(* SpecAdmin: the user routes of the admin router, two requests in flight  *)
(* at a time, called by any user on any user or on an id no user has.      *)
(***************************************************************************)
InitAdmin ==
    /\ now = 0
    /\ users = InitUsers
    /\ products = [p \in ProductIds |-> NewProduct(Cents(2500), MaxStock)]
    /\ cart_items = {}
    /\ orders = <<>>
    /\ order_items = {}
    /\ sess = [u \in Shoppers |-> IdleSession]
    /\ watch = {"adm"}
    /\ last = NoResponse
    /\ pre_stock = <<>>
    /\ categories = <<>>
    /\ reqs = NoRequests
    /\ reviews = {}

\* the callers and the ids of the requests: the admin, a shopper, and one
\* that names no user
AdminCallers == {"adm", "u1", Anonymous}

NextAdmin ==
    \/ \E r \in Slots, c \in AdminCallers, id \in AdminCallers, body \in UserUpdates :
          update_user_load(r, c, id, body)
    \/ \E r \in Slots : update_user_commit(r)
    \/ \E r \in Slots, c \in AdminCallers, id \in AdminCallers : delete_user_load(r, c, id)
    \/ \E r \in Slots : delete_user_commit(r)
    \/ \E r \in Slots, c \in AdminCallers, id \in AdminCallers : make_admin_load(r, c, id)
    \/ \E r \in Slots : make_admin_commit(r)
    \/ \E r \in Slots, c \in AdminCallers, id \in AdminCallers : revoke_admin_load(r, c, id)
    \/ \E r \in Slots : revoke_admin_commit(r)

SpecAdmin == InitAdmin /\ [][NextAdmin]_vars

(***************************************************************************)
(* Checkout and cancellation, one request at a time (SpecSerial).          *)
(***************************************************************************)
\* the step answers shopper u's create_order with a failure
CreateOrderFails(u) ==
    /\ last' # last
    /\ last'.op = "create_order"
    /\ last'.by = u
    /\ last'.outcome # "created"

\* the step takes shopper u's create_order one step further without answering
CreateOrderProceeds(u) ==
    /\ sess'[u] # sess[u]
    /\ sess'[u].pc \in {"flush", "items"}

C2_StockNeverNegative ==
    \A p \in ProductIds : products[p].stock_quantity >= 0

\* the second order was committed for two units when the store held none:
\* its request had read the stock before the first order was committed
C2_OrderedFromStaleStock ==
    /\ Len(orders) = 2
    /\ pre_stock[2]["p1"] = <<0>>
    /\ \E it \in order_items : it.order_id = 2 /\ it.quantity = 2
    /\ products["p1"].stock_quantity = 0

(***************************************************************************)
(* Checkout and cancellation, one request at a time (SpecSerial), further. *)
(***************************************************************************)
\* the step commits shopper u's create_order
CreateOrderSucceeds(u) ==
    /\ sess[u].pc = "items"
    /\ last' = Response("create_order", u, "created")
    /\ Len(orders') = Len(orders) + 1

\* the quantity of product p in the cart of u, 0 when the cart has no such line
InCart(u, p) ==
    LET rows == {ci \in CartOf(u) : ci.product_id = p}
    IN  IF rows = {} THEN 0 ELSE (CHOOSE ci \in rows : TRUE).quantity

\* C3: after a successful create_order the caller's cart is empty, the other
\* carts are unchanged, the new order has one item per former cart line with
\* that line's quantity, and the stock of every product is lower by exactly
\* the quantity ordered of it (unchanged for a product not in the cart).
C3_CreateOrderPost ==
    [][\A u \in Shoppers :
          CreateOrderSucceeds(u) =>
             LET new == {it \in order_items' : it.order_id = Len(orders')}
             IN  /\ {ci \in cart_items' : ci.user_id = u} = {}
                 /\ {ci \in cart_items' : ci.user_id # u} = {ci \in cart_items : ci.user_id # u}
                 /\ order_items' \ new = order_items
                 /\ Cardinality(new) = Cardinality(CartOf(u))
                 /\ \A ci \in CartOf(u) :
                       \E it \in new : /\ it.product_id = ci.product_id
                                       /\ it.quantity = ci.quantity
                 /\ \A p \in ProductIds :
                       products'[p].stock_quantity =
                           products[p].stock_quantity - InCart(u, p)]_vars

\* u1 has ordered two products, one of them twice, while u2 keeps a cart
C3_TwoLineOrderPlaced ==
    /\ last = Response("create_order", "u1", "created")
    /\ CartOf("u1") = {}
    /\ CartOf("u2") # {}
    /\ \E it \in order_items : it.quantity = 2
    /\ Cardinality(order_items) = 2
    /\ \A p \in ProductIds : products[p].stock_quantity < MaxStock

\* the step commits shopper u's cancel_order
CancelOrderSucceeds(u) ==
    /\ sess[u].pc = "cancel"
    /\ last' = Response("cancel_order", u, "cancelled")

\* C4: create_order followed by cancel_order of that order by its owner, with
\* no other write of the stock of its products in between, sets the status
\* to cancelled and returns the stock of every ordered product that still
\* exists to its value before create_order; a line whose product was deleted
\* in between is skipped and the cancellation does not fail.
C4_CancelRestoresStock ==
    [][\A u \in Shoppers :
          /\ CancelOrderSucceeds(u) =>
                LET o == sess[u].order_id
                IN  /\ orders'[o].status = CANCELLED
                    /\ \A p \in ProductIds :
                          (pre_stock[o][p] # NoStock /\ products[p].exists) =>
                              products'[p].stock_quantity = pre_stock[o][p][1]
          /\ (sess[u].pc = "cancel" /\ sess'[u].pc # "cancel") => CancelOrderSucceeds(u)]_vars

\* u1 has cancelled a two-line order after one of its products was deleted;
\* the other product is back at the stock it had
C4_CancelledAfterDelete ==
    /\ last = Response("cancel_order", "u1", "cancelled")
    /\ \E a, b \in order_items :
          /\ a.order_id = b.order_id
          /\ orders[a.order_id].status = CANCELLED
          /\ a.product_id = Null
          /\ b.product_id # Null
          /\ products[b.product_id].stock_quantity = MaxStock

(***************************************************************************)
(* Order amounts (SpecPricing), in hundredths.                             *)
(***************************************************************************)
ItemsOf(o) == {it \in order_items : it.order_id = o}

\* the sum over the items in S of price_at_purchase times quantity
RECURSIVE SumOfItems(_)
SumOfItems(S) ==
    IF S = {} THEN 0
    ELSE LET it == CHOOSE x \in S : TRUE
         IN  it.price_at_purchase * it.quantity + SumOfItems(S \ {it})

\* C5: every order in every reachable state has total_amount = subtotal +
\* shipping_cost + tax_amount - discount_amount, and its subtotal is the sum
\* over its items of price_at_purchase times quantity; a status update, a
\* cancellation or a price edit after the order does not break this.
C5_TotalsConsistent ==
    \A o \in 1..Len(orders) :
        /\ orders[o].total_amount =
              orders[o].subtotal + orders[o].shipping_cost
                  + orders[o].tax_amount - orders[o].discount_amount
        /\ orders[o].subtotal = SumOfItems(ItemsOf(o))

\* a delivered order of two lines, one of a product whose price was edited
\* after the order, and whose amounts went through rounding (1666.60 * 3)
C5_DeliveredAfterPriceEdit ==
    \E o \in 1..Len(orders) :
        /\ orders[o].status = DELIVERED
        /\ Cardinality(ItemsOf(o)) = 2
        /\ \E it \in ItemsOf(o) :
              /\ it.price_at_purchase = 166660
              /\ it.quantity = 3
              /\ products[it.product_id].price # it.price_at_purchase

\* C6: every order has shipping_cost 0 when its subtotal (the sum of price at
\* order time times quantity) is at least 5000 and 250 otherwise, and
\* total_amount = subtotal + shipping_cost.
C6_ShippingByThreshold ==
    \A o \in 1..Len(orders) :
        /\ orders[o].shipping_cost =
              IF SumOfItems(ItemsOf(o)) >= Cents(FreeShippingFrom) THEN 0 ELSE Cents(FlatShipping)
        /\ orders[o].total_amount = orders[o].subtotal + orders[o].shipping_cost

\* orders on both sides of the threshold: 2500.00 * 2 ships free, 4999.00 pays
C6_AtAndBelowThreshold ==
    \E o \in 1..Len(orders) :
        /\ orders[o].subtotal \in {Cents(5000), Cents(4999)}
        /\ orders[o].shipping_cost = IF orders[o].subtotal = Cents(5000) THEN 0 ELSE Cents(250)
        /\ \E it \in ItemsOf(o) : it.price_at_purchase \in {Cents(2500), Cents(4999)}
        /\ Cardinality(ItemsOf(o)) = 1

(***************************************************************************)
(* The order status machine (SpecStatus).                                  *)
(***************************************************************************)
Invalid == "Order cannot be cancelled at this stage"

\* C7: cancel_order by its owner on an order whose status is not pending or
\* confirmed fails with Invalid and leaves the status and payment_status of
\* the order and the stock_quantity of every product unchanged.
C7_CancelRejectedUnchanged ==
    [][\A u \in Shoppers, o \in 1..Len(orders) :
          ( /\ cancel_order_load(u, o)
            /\ orders[o].user_id = u
            /\ orders[o].status \notin {PENDING, CONFIRMED} )
          => /\ last' = Response("cancel_order", u, Invalid)
             /\ sess'[u].pc = "idle"
             /\ orders' = orders
             /\ products' = products]_vars

\* the owner's cancellation of a shipped order was refused
C7_ShippedNotCancelled ==
    /\ last = Response("cancel_order", "u1", Invalid)
    /\ Len(orders) = 1
    /\ orders[1].status = SHIPPED
    /\ products["p1"].stock_quantity = MaxStock - 1

\* C8: an order's status becomes cancelled only in a step whose preceding
\* status was pending or confirmed, whichever operation makes the change.
C8_CancelledOnlyFromOpen ==
    [][\A o \in 1..Len(orders) :
          (orders'[o].status = CANCELLED /\ orders[o].status # CANCELLED)
          => orders[o].status \in {PENDING, CONFIRMED}]_vars

\* C9: an order that is paid and becomes cancelled becomes refunded in that
\* step, and an order that becomes delivered becomes paid in that step.
C9_PaymentFollowsStatus ==
    [][\A o \in 1..Len(orders) :
          /\ ( /\ orders'[o].status = CANCELLED
               /\ orders[o].status # CANCELLED
               /\ orders[o].payment_status = PAID )
             => orders'[o].payment_status = REFUNDED
          /\ (orders'[o].status = DELIVERED /\ orders[o].status # DELIVERED)
             => orders'[o].payment_status = PAID]_vars

\* the step answers a status update on either route
StatusUpdateAnswered ==
    /\ last' # last
    /\ last'.op \in {"orders.update_order_status", "admin.update_order_status"}

\* C10: a status update from a caller who is not an authenticated admin, on
\* either route, changes no order's status, payment_status or delivered_at.
C10_StatusUpdateAdminOnly ==
    [][(StatusUpdateAnswered /\ ~get_current_admin_user(last'.by)) => orders' = orders]_vars

(***************************************************************************)
(* Ownership and the cart, one request at a time (SpecOwner).              *)
(***************************************************************************)
OrderNotFound == "Order not found"

CartItemNotFound == "Cart item not found"

\* order o is not the caller's: it is another user's or it does not exist
NotOwnOrder(u, o) == ~(o \in 1..Len(orders) /\ orders[o].user_id = u)

\* no cart item with this id is the caller's
NotOwnItem(u, id) == \A ci \in cart_items : ci.id = id => ci.user_id # u

\* the step leaves every order, order item, cart item and product as it was
NothingTouched ==
    /\ orders' = orders
    /\ order_items' = order_items
    /\ cart_items' = cart_items
    /\ products' = products

\* C11: get_order, cancel_order, update_cart_item and remove_from_cart on an
\* order or cart item of another user answer as they do for an id that does
\* not exist (not found), and leave the orders, the cart items and every
\* product's stock unchanged.
C11_ForeignIsNotFound ==
    [][\A u \in Shoppers :
          /\ \A o \in 1..MaxOrders :
                (NotOwnOrder(u, o) /\ (get_order(u, o) \/ cancel_order_load(u, o)))
                => /\ last'.by = u
                   /\ last'.outcome = OrderNotFound
                   /\ sess' = sess
                   /\ NothingTouched
          /\ \A id \in OwnerItemIds :
                ( /\ NotOwnItem(u, id)
                  /\ \/ remove_from_cart(u, id)
                     \/ \E q \in 1..MaxQty : update_cart_item(u, id, q) )
                => /\ last'.by = u
                   /\ last'.outcome = CartItemNotFound
                   /\ NothingTouched]_vars

\* u2 asked to change a cart item that u1 holds, and the item is as it was
C11_ForeignItemRefused ==
    /\ last = Response("update_cart_item", "u2", CartItemNotFound)
    /\ \E ci \in CartOf("u1") : ci.quantity = MaxQty
    /\ Len(orders) = 1

\* the step is add_to_cart(u, p, q) on a cart that has a line for p
AddsToLine(u, p, q) ==
    /\ add_to_cart(u, p, q)
    /\ products[p].exists
    /\ products[p].is_active
    /\ \E ci \in CartOf(u) : ci.product_id = p

LineQuantity(u, p) == (CHOOSE ci \in CartOf(u) : ci.product_id = p).quantity

\* C13: add_to_cart for a product already in the caller's cart adds the
\* requested quantity to the line; when the line's quantity plus the
\* requested quantity exceeds the stock the call fails with "Insufficient
\* stock" and get_cart shows the cart of before the call.
C13_AddMergesOrRefuses ==
    [][\A u \in Shoppers, p \in ProductIds, q \in 1..MaxQty :
          AddsToLine(u, p, q)
          => IF LineQuantity(u, p) + q > products[p].stock_quantity
             THEN /\ last' = Response("add_to_cart", u, "Insufficient stock")
                  /\ get_cart(u)' = get_cart(u)
             ELSE /\ last' = Response("add_to_cart", u, "ok")
                  /\ get_cart(u)' =
                        (get_cart(u) \ {[product_id |-> p, quantity |-> LineQuantity(u, p)]})
                          \cup {[product_id |-> p, quantity |-> LineQuantity(u, p) + q]}]_vars

\* two additions filled the line up to the stock and a third was refused
C13_ThirdAddRefused ==
    /\ last = Response("add_to_cart", "u1", "Insufficient stock")
    /\ products["p1"].stock_quantity = MaxStock
    /\ [product_id |-> "p1", quantity |-> MaxStock] \in get_cart("u1")

(***************************************************************************)
(* The cart under requests that run at the same time (SpecCart).           *)
(***************************************************************************)
\* C12: in every reachable state there is at most one cart item per user
\* and product, under any interleaving of add_to_cart, update_cart_item,
\* remove_from_cart, clear_cart and create_order.
C12_OneItemPerUserProduct ==
    \A a \in cart_items, b \in cart_items :
        (a.user_id = b.user_id /\ a.product_id = b.product_id) => a = b

\* two requests found no line; one inserted it and the other was refused
C12_SecondInsertRefused ==
    /\ last = Response("add_to_cart", "u1", "store failure")
    /\ \E ci \in CartOf("u1") : ci.product_id = "p1"
    /\ products["p1"].exists
    /\ \A r \in Slots : reqs[r].pc = "idle"

\* the step commits the add_to_cart of slot r with success, after a request
\* for the same line, read from the same quantity, has succeeded in the
\* meantime and is still in the store, the two quantities together
\* exceeding the stock
BothSucceed(r) ==
    /\ reqs[r].pc = "add_to_cart"
    /\ add_to_cart_commit(r)
    /\ last' = Response("add_to_cart", reqs[r].by, "ok")
    /\ products[reqs[r].target] = reqs[r].read.product
    /\ \E m \in reqs[r].met :
          /\ m.base = BaseQuantity(reqs[r])
          /\ reqs[r].body <= reqs[r].read.product.stock_quantity
          /\ m.quantity <= reqs[r].read.product.stock_quantity
          /\ m.base + m.quantity + reqs[r].body > reqs[r].read.product.stock_quantity
          /\ \E ci \in cart_items :
                /\ ci.user_id = reqs[r].by
                /\ ci.product_id = reqs[r].target
                /\ ci.quantity = m.base + m.quantity

\* C14: two add_to_cart calls of one user for one product that run at the
\* same time, each within the stock and together beyond it, do not both
\* succeed, whether the cart had a line for the product or not.
C14_NotBothSucceed == [][\A r \in Slots : ~BothSucceed(r)]_vars

\* the same with no line in the cart at the start: the second INSERT is
\* refused
InsertsDoNotBothSucceed ==
    [][\A r \in Slots : BothSucceed(r) => BaseQuantity(reqs[r]) # 0]_vars

(***************************************************************************)
(* The category table, one request at a time (SpecCategory).               *)
(***************************************************************************)
\* following parent_id from category i reaches a null parent within fuel steps
RECURSIVE ReachesRoot(_, _)
ReachesRoot(i, fuel) ==
    IF categories[i].parent_id = NoId THEN TRUE
    ELSE IF fuel = 0 THEN FALSE
    ELSE ReachesRoot(categories[i].parent_id, fuel - 1)

\* C15: after any sequence of create_category, update_category and
\* delete_category the parent references form a forest: from every category
\* the chain of parents ends at a category without parent, so no category is
\* its own ancestor, directly or through other categories.
C15_ParentsFormForest ==
    \A i \in CategoryIds : ReachesRoot(i, MaxCategories)

\* no category is its own parent: the one cycle the code refuses
NoSelfParent ==
    \A i \in CategoryIds : categories[i].parent_id # i

\* two categories are each other's parent
C15_TwoCycle ==
    \E i \in CategoryIds, j \in CategoryIds :
        /\ i # j
        /\ categories[i].parent_id = j
        /\ categories[j].parent_id = i

\* the step commits the deletion of category id with force set
ForcedDelete(r, id) ==
    /\ reqs[r].pc = "delete_category"
    /\ reqs[r].target = id
    /\ reqs[r].body = TRUE
    /\ delete_category_commit(r)
    /\ last'.outcome = "deleted"

\* C17: delete_category with force on an existing category removes only
\* the row of that category: the products that referenced it are still there
\* with a null category_id, and its subcategories are still there with a
\* null parent_id.
C17_ForcedDeleteKeepsProducts ==
    [][\A r \in Slots, id \in CategoryIds :
          ForcedDelete(r, id)
          => /\ ~categories'[id].exists
             /\ \A p \in ProductsOf(id) :
                   /\ products'[p].exists
                   /\ products'[p].category_id = NoId
             /\ \A i \in SubcategoriesOf(id) :
                   /\ categories'[i].exists
                   /\ categories'[i].parent_id = NoId]_vars

\* the part of C17 that holds: the subcategories are promoted to roots and
\* no other category row changes
ForcedDeletePromotes ==
    [][\A r \in Slots, id \in CategoryIds :
          ForcedDelete(r, id)
          => /\ ~categories'[id].exists
             /\ \A i \in CategoryIds \ {id} :
                   categories'[i] =
                      IF i \in SubcategoriesOf(id)
                      THEN [categories[i] EXCEPT !.parent_id = NoId]
                      ELSE categories[i]]_vars

\* a category was deleted with force and a product attached to it is gone,
\* with the cart item that held it
C17_ProductDeletedWithCategory ==
    /\ last = Response("delete_category", Anonymous, "deleted")
    /\ ~categories[1].exists
    /\ ~products["p1"].exists
    /\ cart_items = {}

CategoryInvalid == {"Category has products", "Category has subcategories"}

\* C18: delete_category without force on a category that has a product or a
\* subcategory fails with the reason (through /categories, a 400 carrying
\* it) and leaves the categories and the products unchanged.
C18_BlockedDeleteUnchanged ==
    [][\A r \in Slots, route \in CategoryRoutes, id \in CategoryIds :
          ( /\ delete_category_load(r, route, CallerOn(route), id, FALSE)
            /\ (ProductsOf(id) # {} \/ SubcategoriesOf(id) # {}) )
          => /\ last'.op = "delete_category"
             /\ route = "categories" => last'.outcome \in CategoryInvalid
             /\ last'.outcome \in CategoryInvalid \cup {"Internal Server Error"}
             /\ reqs' = reqs
             /\ categories' = categories
             /\ products' = products
             /\ cart_items' = cart_items]_vars

\* a category without products was not deleted because of its subcategory
C18_BlockedBySubcategory ==
    /\ last = Response("delete_category", Anonymous, "Category has subcategories")
    /\ \E i \in CategoryIds :
          /\ SubcategoriesOf(i) # {}
          /\ ProductsOf(i) = {}
    /\ \A i \in CategoryIds : ProductsOf(i) = {}
    /\ Cardinality(CategoryIds) = 2

(***************************************************************************)
(* Slugs under requests that run at the same time (SpecSlug).              *)
(***************************************************************************)
SlugInUse == "Slug is already in use"

\* some category other than id has the slug
SlugTaken(sl, id) == \E i \in CategoryIds : i # id /\ categories[i].slug = sl

\* C16: in every reachable state no two categories share a slug;
\* create_category fails when any category has the slug, update_category
\* fails when a different category has the new slug, and two creates or
\* updates with one slug that run at the same time do not both succeed.
C16_SlugsUnique ==
    /\ [](\A i \in CategoryIds, j \in CategoryIds :
             categories[i].slug = categories[j].slug => i = j)
    /\ [][\A r \in Slots, body \in SlugBodies :
             ( /\ create_category_load(r, "categories", Anonymous, body)
               /\ SlugTaken(body.slug, NoId) )
             => /\ last' = Response("create_category", Anonymous, SlugInUse)
                /\ reqs' = reqs]_vars
    /\ [][\A r \in Slots, id \in CategoryIds, body \in SlugUpdates :
             ( /\ update_category_load(r, "categories", Anonymous, id, body)
               /\ SlugTaken(body.slug[1], id) )
             => /\ last' = Response("update_category", Anonymous, SlugInUse)
                /\ reqs' = reqs]_vars

\* an update to a slug that was free when it was checked and taken when it
\* was committed was refused by the table: only slugs are updated here and
\* no category has been deleted
C16_SecondSlugRefused ==
    /\ last = Response("update_category", Anonymous, "store failure")
    /\ Len(categories) = 2
    /\ categories[1].exists
    /\ categories[2].exists
    /\ categories[1].slug # categories[2].slug

(***************************************************************************)
(* The category tree (SpecTree).                                           *)
(***************************************************************************)
\* the ids of the nodes of a list of trees, parents before children
RECURSIVE IdsIn(_)
IdsIn(nodes) ==
    IF Len(nodes) = 0 THEN <<>>
    ELSE <<nodes[1].id>> \o IdsIn(nodes[1].subcategories) \o IdsIn(Tail(nodes))

\* the nodes of a list of trees
RECURSIVE NodesIn(_)
NodesIn(nodes) ==
    UNION {{nodes[k]} \cup NodesIn(nodes[k].subcategories) : k \in 1..Len(nodes)}

\* the ids at the top of a list of trees
TopIds(nodes) == {nodes[k].id : k \in 1..Len(nodes)}

\* category i is active and so is every category above it, up to a root
RECURSIVE Shown(_, _)
Shown(i, fuel) ==
    /\ categories[i].is_active
    /\ \/ categories[i].parent_id = NoId
       \/ /\ fuel > 0
          /\ Shown(categories[i].parent_id, fuel - 1)

\* the answer is a category tree
TreeAnswered == last.op = "get_category_tree"

\* C19: get_category_tree returns one top-level node for each active
\* category without parent and under every node its active subcategories,
\* at every depth; an inactive category and the categories below it do not
\* appear, and no category appears twice.
C19_TreeIsActiveForest ==
    TreeAnswered =>
        LET tree == last.outcome
            ids  == IdsIn(tree)
        IN  /\ TopIds(tree) =
                  {i \in CategoryIds : categories[i].is_active /\ categories[i].parent_id = NoId}
            /\ \A n \in NodesIn(tree) :
                  TopIds(n.subcategories) =
                     {i \in CategoryIds :
                         categories[i].is_active /\ categories[i].parent_id = n.id}
            /\ \A k \in 1..Len(ids) : Shown(ids[k], Len(categories))
            /\ \A i \in CategoryIds : Shown(i, Len(categories)) => \E k \in 1..Len(ids) : ids[k] = i
            /\ \A k, m \in 1..Len(ids) : ids[k] = ids[m] => k = m

\* a root is shown alone: its subcategory is hidden, and the active category
\* under the hidden one does not appear
C19_HiddenSubtreePruned ==
    /\ TreeAnswered
    /\ IdsIn(last.outcome) = <<1>>
    /\ categories[2].parent_id = 1
    /\ ~categories[2].is_active
    /\ categories[3].parent_id = 2
    /\ categories[3].is_active

\* ascending display_order, then ascending name
Ascending(nodes) ==
    \A k, m \in 1..Len(nodes) :
        k < m =>
           LET a == categories[nodes[k].id]
               b == categories[nodes[m].id]
           IN  \/ a.display_order < b.display_order
               \/ a.display_order = b.display_order /\ a.name < b.name

\* C20: at every level of the tree of get_category_tree, the roots and the
\* subcategories of every node, the siblings are in ascending
\* display_order, those with equal display_order in ascending name.
C20_SiblingsInOrder ==
    TreeAnswered =>
        /\ Ascending(last.outcome)
        /\ \A n \in NodesIn(last.outcome) : Ascending(n.subcategories)

\* the part of C20 that holds: the roots are in the order of the query
RootsInOrder == TreeAnswered => Ascending(last.outcome)

\* two subcategories of a root are returned against their display_order
C20_SubcategoriesOutOfOrder ==
    /\ TreeAnswered
    /\ IdsIn(last.outcome) = <<1, 2, 3>>
    /\ categories[2].parent_id = 1
    /\ categories[3].parent_id = 1
    /\ categories[2].display_order = 1
    /\ categories[3].display_order = 0

(***************************************************************************)
(* Reviews (SpecReview).                                                   *)
(***************************************************************************)
\* C21: in every reachable state there is at most one review per (user,
\* product) pair, also when two create_review requests of the same user for
\* the same product interleave.
C21_OneReviewPerUserProduct ==
    \A u \in UserIds, p \in ProductIds : Cardinality(ReviewsOf(u, p)) <= 1

\* two reviews of one user for one product are stored
C21_TwoReviewsStored ==
    \E u \in UserIds, p \in ProductIds : Cardinality(ReviewsOf(u, p)) = 2

\* a create_review request that starts when the pair has a review is refused
SecondReviewRefused ==
    [][\A r \in Slots, u \in Shoppers, p \in ProductIds :
          (\E rating \in Ratings : create_review_load(r, u, p, rating)) /\ ReviewsOf(u, p) # {}
              => reqs' = reqs]_vars

\* the request of slot r starts for user u and product p, who has no review
\* of it, while no other request is in flight
ReviewStarts(r, u, p) ==
    /\ \E rating \in Ratings : create_review_load(r, u, p, rating)
    /\ ReviewsOf(u, p) = {}
    /\ products[p].exists
    /\ \A s \in Slots : reqs[s].pc = "idle"

\* the request of slot r for user u and product p commits
ReviewCommits(r, u, p) ==
    /\ create_review_commit(r)
    /\ reqs[r].by = u
    /\ reqs[r].target = p
    /\ products[p].exists

\* C25: create_review by a user with no review of the product succeeds and
\* stores is_verified_purchase = TRUE exactly when the user's orders hold at
\* least one item of the product, whatever their number.
C25_VerifiedByHistory ==
    [][\A r \in Slots, u \in Shoppers, p \in ProductIds :
          /\ ReviewStarts(r, u, p) =>
                /\ reqs'[r].pc = "create_review"
                /\ reqs'[r].read.is_verified_purchase = (PurchasesOf(u, p) # {})
          /\ ReviewCommits(r, u, p) =>
                \E rv \in reviews' \ reviews :
                    /\ rv.user_id = u /\ rv.product_id = p
                    /\ rv.is_verified_purchase = reqs[r].read.is_verified_purchase]_vars

\* the same, for a user whose orders hold at most one item of the product
VerifiedByOnePurchase ==
    [][\A r \in Slots, u \in Shoppers, p \in ProductIds :
          ReviewStarts(r, u, p) /\ Cardinality(PurchasesOf(u, p)) <= 1 =>
                /\ reqs'[r].pc = "create_review"
                /\ reqs'[r].read.is_verified_purchase = (PurchasesOf(u, p) # {})]_vars

\* a user with two orders of the product, and no review of it, is answered
\* with a server error
C25_TwoPurchasesRefused ==
    /\ last = Response("create_review", "u1", InternalServerError)
    /\ Cardinality(PurchasesOf("u1", "p1")) = 2
    /\ reviews = {}

(***************************************************************************)
(* Order items (SpecItems).                                                *)
(***************************************************************************)
\* the snapshot an order item holds
Snapshot(it) ==
    <<it.order_id, it.product_name, it.product_sku, it.price_at_purchase, it.quantity,
      it.subtotal>>

\* C22: once an order is created, the product_name, product_sku,
\* price_at_purchase, quantity and subtotal of each of its items never
\* change, whatever happens to the product or the order; deleting the
\* product only sets the item's product reference to null and keeps the item.
C22_OrderItemsImmutable ==
    [][/\ \A it \in order_items :
             \E jt \in order_items' :
                 /\ jt.id = it.id
                 /\ Snapshot(jt) = Snapshot(it)
                 /\ jt.product_id \in {it.product_id, Null}
       /\ \A jt \in order_items' :
             jt.order_id \in 1..Len(orders) => \E it \in order_items : it.id = jt.id]_vars

\* a cancelled order keeps the item of a product that was renamed, repriced
\* and then deleted
C22_ItemOutlivesProduct ==
    \E it \in order_items :
        /\ it.product_id = Null
        /\ it.product_name = "name"
        /\ it.price_at_purchase = Cents(2500)
        /\ orders[it.order_id].status = CANCELLED
        /\ \E jt \in order_items : jt.order_id = it.order_id /\ jt.product_id # Null
                                     /\ products[jt.product_id].name = "renamed"
                                     /\ products[jt.product_id].price = Cents(4999)

(***************************************************************************)
(* Listings (SpecListing).                                                 *)
(***************************************************************************)
\* a listing was answered with a page
PageAnswered == last.op \in ListingOps /\ last.outcome.status = "ok"

\* the number of items page p of page size s holds when total rows match
ItemsOnPage(total, p, s) ==
    LET left == total - (p - 1) * s
    IN  IF left < 0 THEN 0 ELSE IF left < s THEN left ELSE s

\* C23: for every listing with total matching rows, page >= 1 and page size
\* >= 1, the number of pages is the ceiling of total / page size when
\* total > 0, and page p holds min(page size, max(0, total - (p-1) * page
\* size)) items.
C23_PageArithmetic ==
    PageAnswered /\ last.outcome.page >= 1 /\ last.outcome.page_size >= 1 =>
        LET o == last.outcome
        IN  /\ o.total = Len(RowsOf(last.op, last.by))
            /\ o.total > 0 =>
                  /\ (o.total_pages - 1) * o.page_size < o.total
                  /\ o.total_pages * o.page_size >= o.total
            /\ Len(o.items) = ItemsOnPage(o.total, o.page, o.page_size)

\* four orders in pages of three: two pages, the second holding one order
C23_LastPageShort ==
    /\ PageAnswered
    /\ last.op = "get_all_orders"
    /\ last.outcome.total = 4 /\ last.outcome.page = 2 /\ last.outcome.page_size = 3
    /\ last.outcome.total_pages = 2
    /\ last.outcome.items = <<1>>

\* the request named a page or a page size outside the listing's range
OutOfRange(l, o) ==
    \/ o.page < 1
    \/ o.page_size < 1
    \/ l.le # <<>> /\ o.page_size > l.le[1]

\* C24: every listing rejects a page below 1 and a page size below 1 or
\* above the resource's maximum before any query or arithmetic runs.
C24_ListingsValidate ==
    \A l \in Listings :
        last.op = l.op /\ OutOfRange(l, last.outcome) => last.outcome.status = ValidationError

\* the listings whose route declares the ranges do
DeclaredListingsValidate ==
    \A l \in Listings :
        last.op = l.op /\ l.le # <<>> /\ OutOfRange(l, last.outcome)
            => last.outcome.status = ValidationError

\* page 0 of the caller's own orders reaches the database with a negative
\* OFFSET
C24_NegativeOffset ==
    /\ last.op = "get_user_orders"
    /\ last.outcome.status = InternalServerError
    /\ last.outcome.page = 0
    /\ last.outcome.page_size = 1

(***************************************************************************)
(* Business-rule failures at the routes (SpecCategory).                    *)
(***************************************************************************)
\* the reasons the category service refuses a request with
CategoryRuleFailures ==
    {"Slug is already in use", "Parent category not found",
     "Category cannot be its own parent"} \cup CategoryInvalid

\* a step of a category request on the route that ends at the checks of
\* the service
CategoryRequestRefused(route) ==
    /\ \/ \E body \in CreateBodies :
             create_category_load("r1", route, CallerOn(route), body)
       \/ \E id \in 1..MaxCategories, body \in UpdateBodies :
             update_category_load("r1", route, CallerOn(route), id, body)
       \/ \E id \in 1..MaxCategories, force \in BOOLEAN :
             delete_category_load("r1", route, CallerOn(route), id, force)
    /\ reqs' = reqs
    /\ last'.outcome # "Category not found"

\* C26: every business-rule failure of a service operation (slug in use,
\* parent not found, self-parenting, category with products or children)
\* is answered by every route that calls the operation, the /admin routes
\* included, with a client error carrying the reason; none leaves a route
\* as an unhandled error.
C26_FailuresCarryReason ==
    [][\A route \in CategoryRoutes :
          CategoryRequestRefused(route) => last'.outcome \in CategoryRuleFailures]_vars

\* the routes of api/v1/categories.py answer every such failure with its
\* reason
CategoriesRouterCarriesReason ==
    [][CategoryRequestRefused("categories") => last'.outcome \in CategoryRuleFailures]_vars

\* the admin created a category with a slug in use through /admin/categories
\* and got a 500
C26_AdminSlugUnhandled ==
    /\ last = Response("create_category", "adm", InternalServerError)
    /\ Len(categories) = 1
    /\ reqs = NoRequests

(***************************************************************************)
(* Stock and ordered quantities under create_order and cancel_order alone  *)
(* (SpecStock).                                                            *)
(***************************************************************************)
\* the total quantity over the order items in S
RECURSIVE QuantityOf(_)
QuantityOf(S) ==
    IF S = {} THEN 0
    ELSE LET it == CHOOSE x \in S : TRUE
         IN  it.quantity + QuantityOf(S \ {it})

\* the quantity of product p in the orders that are not cancelled
Ordered(p) ==
    QuantityOf({it \in order_items :
                   it.product_id = p /\ orders[it.order_id].status # CANCELLED})

\* C27: with only create_order and cancel_order, in every reachable state,
\* create_order calls of different users interleaved included, the
\* stock_quantity of each product plus the quantity of it in the orders
\* that are not cancelled equals its initial stock_quantity.
C27_StockConserved ==
    \A p \in ProductIds : products[p].stock_quantity + Ordered(p) = MaxStock

\* a commit of create_order or cancel_order whose request read the stock
\* the store still holds keeps the sum
StockConservedWhenFresh ==
    [][\A u \in Shoppers :
          ( /\ create_order_commit(u) \/ cancel_order_commit(u)
            /\ \A i \in 1..Len(sess[u].lines) :
                  sess[u].lines[i].product = products[sess[u].lines[i].product_id] )
          => \A p \in ProductIds :
                (products[p].stock_quantity + Ordered(p))'
                    = products[p].stock_quantity + Ordered(p)]_vars

\* both shoppers ordered one unit of two; the store still holds one
C27_TwoSoldOneTaken ==
    /\ Len(orders) = 2
    /\ \A o \in 1..2 : orders[o].status = PENDING
    /\ Ordered("p1") = 2
    /\ products["p1"].stock_quantity = 1
    /\ Quiet

(***************************************************************************)
(* Restoring the stock of an order more than once (SpecStatus).            *)
(***************************************************************************)
\* the stock given back so far on behalf of the order line: the store starts
\* with MaxStock of each product and the line is the only one that took any
RestoredFor(it) ==
    products[it.product_id].stock_quantity - (MaxStock - it.quantity)

\* C28: over any sequence of create_order, cancel_order and
\* update_order_status on one order, the stock added back to a product on
\* behalf of an order line never exceeds the line's quantity: the stock of
\* an order is restored at most once, even if a status update moves the
\* cancelled order back to pending or confirmed and the owner cancels again.
C28_RestoredAtMostOnce ==
    \A it \in order_items : RestoredFor(it) \in 0..it.quantity

\* cancel_order on an order that is cancelled is refused and restores nothing
CancelOfCancelledRefused ==
    [][\A u \in Shoppers, o \in 1..Len(orders) :
          ( /\ cancel_order_load(u, o)
            /\ orders[o].user_id = u
            /\ orders[o].status = CANCELLED )
          => /\ last' = Response("cancel_order", u, Invalid)
             /\ sess' = sess
             /\ products' = products]_vars

\* the order of one unit is cancelled for the second time and the store
\* holds one unit more than it started with
C28_RestockedTwice ==
    /\ Len(orders) = 1
    /\ orders[1].status = CANCELLED
    /\ last = Response("cancel_order", "u1", "cancelled")
    /\ \E it \in order_items : it.order_id = 1 /\ it.quantity = 1 /\ RestoredFor(it) = 2

(***************************************************************************)
(* Order numbers within one second (SpecNumber).                           *)
(***************************************************************************)
\* the cart of u is not empty and every line's product is active with
\* stock for the line
CartValid(u) ==
    /\ CartOf(u) # {}
    /\ \A ci \in CartOf(u) :
          /\ products[ci.product_id].exists
          /\ products[ci.product_id].is_active
          /\ products[ci.product_id].stock_quantity >= ci.quantity

\* C29: create_order succeeds whenever the caller's cart is not empty and
\* every line's product is active with stock_quantity at least the line's
\* quantity, in particular when the same user, or two users whose ids share
\* their first four characters, order within the same second.
C29_ValidCartIsOrdered ==
    [][\A u \in Shoppers :
          ( /\ CartValid(u)
            /\ create_order_load(u) \/ create_order_flush(u) \/ create_order_commit(u) )
          => ~CreateOrderFails(u)]_vars

\* the same, for a request whose order number, made of the second it
\* started in, no order holds
FreshNumberIsOrdered ==
    [][\A u \in Shoppers :
          ( /\ CartValid(u)
            /\ create_order_load(u) \/ create_order_flush(u) \/ create_order_commit(u)
            /\ \A o \in 1..Len(orders) :
                  orders[o].order_number #
                      IF sess[u].pc = "idle" THEN OrderNumber(u, now)
                      ELSE sess[u].order[1].order_number )
          => ~CreateOrderFails(u)]_vars

\* u2's order failed on the store in the second of u1's order, with a valid
\* cart that is still there
C29_SameSecondRefused ==
    /\ last = Response("create_order", "u2", "store failure")
    /\ now = 0
    /\ Len(orders) = 1
    /\ orders[1].user_id = "u1"
    /\ orders[1].order_number = OrderNumber("u2", 0)
    /\ CartValid("u2")

(***************************************************************************)
(* The last active admin (SpecAdmin).                                      *)
(***************************************************************************)
ActiveAdmins == {u \in DOMAIN users : users[u].is_admin /\ users[u].is_active}

\* C30: starting with an active admin, after any sequence or interleaving
\* of update user, delete user, make-admin and revoke-admin, each called by
\* a user who was an active admin when authenticated, at least one user
\* with is_admin and is_active remains.
C30_ActiveAdminRemains == ActiveAdmins # {}

\* no request takes is_admin from its caller
OwnAdminKept ==
    [][\A r \in Slots :
          ( /\ reqs[r].pc # "idle"
            /\ reqs'[r].pc = "idle"
            /\ reqs[r].target = reqs[r].by
            /\ users[reqs[r].by].is_admin )
          => users'[reqs[r].by].is_admin]_vars

\* two admins have revoked each other: every account is active and none is
\* an admin
AdminsRevokedEachOther ==
    /\ \A u \in DOMAIN users : users[u].is_active /\ ~users[u].is_admin
    /\ last = Response("revoke_admin", "adm", "ok")
    /\ reqs = NoRequests

\* the only admin has deactivated their own account with an update
C30_AdminDeactivatedSelf ==
    /\ last = Response("update_user", "adm", "ok")
    /\ ~users["adm"].is_active
    /\ users["adm"].is_admin
    /\ \A u \in Shoppers : ~users[u].is_admin
    /\ reqs = NoRequests

====
